---- MODULE Spec2Model ----
(***************************************************************************)
(* A model of the last-30-days source clients:                             *)
(*   scripts/lib/supadata.py          transcript service, poller, batch    *)
(*   scripts/lib/youtube_yt.py        video search, caption fetch pool     *)
(*   scripts/lib/dataforseo_search.py AI-overview search, normalizer       *)
(* Python values: None is <<>>, a present value v is <<v>>; strings are    *)
(* TLA+ strings, handled character by character.                           *)
(***************************************************************************)
EXTENDS Integers, Sequences, FiniteSets, TLC

VARIABLES
    \* ---- Parallel Fetch Coordinator (fetch_transcripts_batch / _parallel)
    fn,           \* "batch" (supadata.py) or "parallel" (youtube_yt.py)
    keys,         \* the input list: urls or video_ids
    api_key,      \* the api_key argument of fetch_transcripts_batch
    max_workers,  \* the max_workers argument
    cpc,          \* position of the calling thread
    futures,      \* one record per submitted work item, in submission order
    results,      \* the result-collection mapping
    \* ---- Async Job Poller (supadata.py _poll_job)
    max_wait,     \* the max_wait argument
    interval,     \* the interval argument
    elapsed,      \* the local elapsed
    ppc,          \* position in the loop: "loop", "query", "done"
    data,         \* the last answer of the status endpoint
    presult,      \* the value returned
    sleeps,       \* calls of time.sleep so far
    queries,      \* status queries sent so far
    \* ---- AI-overview search (dataforseo_search.py search_web)
    topic,        \* the topic argument
    depth,        \* the depth argument
    wpc,          \* position: "start", "loop", "returned", "raised"
    wqueries,     \* the local queries
    qi,           \* index of the next query of the for loop
    issued,       \* the queries handed to _call_api so far, in order
    errors,       \* the per-query error lines written to stderr so far
    items,        \* the local items of the last normalized response
    all_items,    \* the local all_items
    all_overviews,\* the local all_overviews
    seen_urls,    \* the local seen_urls
    wresult,      \* the value returned: items and ai_overview
    \* ---- Video search (youtube_yt.py search_youtube)
    yapi_key,     \* the api_key argument
    ytopic,       \* the topic argument
    core_topic,   \* the local core_topic
    ydepth,       \* the depth argument
    from_date,    \* the from_date argument
    ypc,          \* position: "start", "search", "stats", "filter", "sort",
                  \* "returned", "raised"
    page_token,   \* the local page_token
    remaining,    \* the local remaining
    all_video_ids,\* the local all_video_ids
    all_snippets, \* the local all_snippets
    bi,           \* the index i of the statistics loop
    stats,        \* the local stats
    batches,      \* the videos.list calls made so far: ids sent, answer
    yitems,       \* the local items
    recent,       \* the local recent
    yresult,      \* the value returned: items and error
    requested,    \* the maxResults of the search.list calls made so far
    \* ---- Transcript fetch (supadata.py fetch_transcript)
    tapi_key,     \* the api_key argument
    tpc,          \* position: "start", "polling", "returned"
    submitted,    \* transcription requests sent so far
    polled,       \* calls of _poll_job so far
    job_id,       \* the job_id handed to _poll_job
    answer,       \* what the transcription request gave: status and data, or the error
    tresult,      \* the value returned
    \* ---- The pure functions, one call at a time
    call,         \* the function called and its arguments
    ret,          \* the value it returned
    \* ---- Search with transcripts (youtube_yt.py search_and_transcribe)
    edepth,       \* the depth argument
    epc,          \* position: "start", "select", "fetch", "attach", "returned"
    search_result, \* what search_youtube returned
    eitems,       \* the local items
    top_ids,      \* the video ids handed to fetch_transcripts_parallel
    transcripts,  \* the mapping fetch_transcripts_parallel returned
    eresult       \* the value returned

fetchVars == <<fn, keys, api_key, max_workers, cpc, futures, results>>
pollVars == <<max_wait, interval, elapsed, ppc, data, presult, sleeps, queries>>

webVars == <<topic, depth, wpc, wqueries, qi, issued, errors, items, all_items,
             all_overviews, seen_urls, wresult>>

ytVars == <<yapi_key, ytopic, core_topic, ydepth, from_date, ypc, page_token,
            remaining, all_video_ids,
            all_snippets, bi, stats, batches, yitems, recent, yresult, requested>>

transcriptVars == <<tapi_key, tpc, submitted, polled, job_id, answer, tresult>>
pureVars == <<call, ret>>
enrichVars == <<edepth, epc, search_result, eitems, top_ids, transcripts, eresult>>

vars == <<fetchVars, pollVars, webVars, ytVars, transcriptVars, pureVars, enrichVars>>

(* what each component leaves alone *)
notFetch == <<pollVars, webVars, ytVars, transcriptVars, pureVars, enrichVars>>
notPoll == <<fetchVars, webVars, ytVars, transcriptVars, pureVars, enrichVars>>
notWeb == <<fetchVars, pollVars, ytVars, transcriptVars, pureVars, enrichVars>>
notYT == <<fetchVars, pollVars, webVars, transcriptVars, pureVars, enrichVars>>
notTranscript == <<fetchVars, webVars, ytVars, pureVars, enrichVars>>
notPure == <<fetchVars, pollVars, webVars, ytVars, transcriptVars, enrichVars>>
notEnrich == <<fetchVars, pollVars, webVars, ytVars, transcriptVars, pureVars>>

-----------------------------------------------------------------------------
(* Python's Optional *)
None == <<>>
Some(v) == <<v>>

(* Python truthiness of an Optional[str] *)
Truthy(o) == o # None /\ o[1] # ""

(* A key of a decoded JSON object is absent (Missing), null (None) or      *)
(* holds a value v (Some(v)).  d.get(key, default):                        *)
Missing == <<"", "">>
Get(f, default) == IF f = Missing THEN default ELSE f

-----------------------------------------------------------------------------
(* Bounds of the model *)
MaxKeys == 3
MaxWorkers == 2
MaxWaitTried == 4
MaxIntervalTried == 2
MaxRefs == 2
MaxVideos == 4
MaxFound == 9

(* Program constants *)
BatchDefaultWorkers == 3
ParallelDefaultWorkers == 5
DefaultMaxWait == 60
DefaultInterval == 3
StatusOk == 20000
TitleMax == 200
SnippetMax == 500
TRANSCRIPT_MAX_WORDS == 500
StatusSync == 200
StatusAsync == 202
MentionMax == 150
TitleWords == 4
SearchPageMax == 50
StatsBatch == 50
DateLen == 10
RecentMin == 3

(* Keys are opaque to the coordinator (dictionary keys handed to the fetch), *)
(* so input lists are taken up to renaming: the first occurrences of the    *)
(* keys appear in the order of KeyOrder. Repeated keys are included.        *)
KeyOrder == <<"u1", "u2", "u3", "u4", "u5">>
KeyIndex(k) == CHOOSE i \in 1..Len(KeyOrder) : KeyOrder[i] = k
Keys == {KeyOrder[i] : i \in 1..Len(KeyOrder)}
Texts == {"tx"}

SeqsUpTo(S, n) == UNION {[1..m -> S] : m \in 0..n}

InputLists ==
    {s \in SeqsUpTo(Keys, MaxKeys) :
        \A i \in 1..Len(s) :
            \/ KeyIndex(s[i]) = 1
            \/ \E j \in 1..(i-1) : KeyIndex(s[j]) = KeyIndex(s[i]) - 1}

-----------------------------------------------------------------------------
(***************************************************************************)
(* Python strings                                                          *)
(***************************************************************************)
Min(a, b) == IF a <= b THEN a ELSE b

Ch(s, i) == SubSeq(s, i, i)
From(s, i) == SubSeq(s, i, Len(s))
(* s[:n] *)
Take(s, n) == SubSeq(s, 1, Min(n, Len(s)))

UpperAlpha == "ABCDEFGHIJKLMNOPQRSTUVWXYZ"
LowerAlpha == "abcdefghijklmnopqrstuvwxyz"
Digits == "0123456789"

(* position of character c in s, 0 when absent: s.find(c) + 1 *)
RECURSIVE IndexFrom(_, _, _)
IndexFrom(s, c, i) ==
    IF i > Len(s) THEN 0
    ELSE IF Ch(s, i) = c THEN i
    ELSE IndexFrom(s, c, i + 1)
Index(s, c) == IndexFrom(s, c, 1)

IsAlpha(c) == Index(UpperAlpha, c) > 0 \/ Index(LowerAlpha, c) > 0
IsDigit(c) == Index(Digits, c) > 0
IsSpace(c) == c \in {" ", "\n", "\t", "\r"}
(* int(x) for a string of decimal digits *)
RECURSIVE DigitsValue(_, _)
DigitsValue(s, acc) ==
    IF s = "" THEN acc
    ELSE DigitsValue(From(s, 2), 10 * acc + Index(Digits, Ch(s, 1)) - 1)

LowerCh(c) == IF Index(UpperAlpha, c) > 0 THEN Ch(LowerAlpha, Index(UpperAlpha, c)) ELSE c

(* s.lower() *)
RECURSIVE Lower(_)
Lower(s) == IF s = "" THEN "" ELSE LowerCh(Ch(s, 1)) \o Lower(From(s, 2))

(* s.rstrip(c) for a single character c *)
RECURSIVE RStripCh(_, _)
RStripCh(s, c) ==
    IF s # "" /\ Ch(s, Len(s)) = c THEN RStripCh(SubSeq(s, 1, Len(s) - 1), c) ELSE s

(* s.strip() *)
RECURSIVE LStrip(_)
LStrip(s) == IF s # "" /\ IsSpace(Ch(s, 1)) THEN LStrip(From(s, 2)) ELSE s
RECURSIVE RStrip(_)
RStrip(s) ==
    IF s # "" /\ IsSpace(Ch(s, Len(s))) THEN RStrip(SubSeq(s, 1, Len(s) - 1)) ELSE s
Strip(s) == RStrip(LStrip(s))

(* s.startswith(p) *)
StartsWith(s, p) == Len(p) <= Len(s) /\ SubSeq(s, 1, Len(p)) = p

(* sub in s *)
Contains(s, sub) ==
    \E i \in 1..(Len(s) - Len(sub) + 1) : SubSeq(s, i, i + Len(sub) - 1) = sub

(* s.replace(a, b) for single characters *)
RECURSIVE ReplaceCh(_, _, _)
ReplaceCh(s, a, b) ==
    IF s = "" THEN ""
    ELSE (IF Ch(s, 1) = a THEN b ELSE Ch(s, 1)) \o ReplaceCh(From(s, 2), a, b)

(* s.split(c) for a single character c; i is the place of the first c *)
RECURSIVE SplitCh(_, _)
SplitAt(s, c, i) ==
    IF i = 0 THEN <<s>>
    ELSE <<SubSeq(s, 1, i - 1)>> \o SplitCh(From(s, i + 1), c)
SplitCh(s, c) == SplitAt(s, c, Index(s, c))

(* s.split(): the maximal runs of non-whitespace *)
RECURSIVE WordEnd(_, _)
WordEnd(s, i) == IF i > Len(s) \/ IsSpace(Ch(s, i)) THEN i - 1 ELSE WordEnd(s, i + 1)
RECURSIVE SplitWs(_)
SplitWord(t, e) == <<SubSeq(t, 1, e)>> \o SplitWs(From(t, e + 1))
SplitStripped(t) == IF t = "" THEN <<>> ELSE SplitWord(t, WordEnd(t, 1))
SplitWs(s) == SplitStripped(LStrip(s))

(* sep.join(parts) *)
RECURSIVE Join(_, _)
Join(parts, sep) ==
    IF Len(parts) = 0 THEN ""
    ELSE IF Len(parts) = 1 THEN parts[1]
    ELSE parts[1] \o sep \o Join(Tail(parts), sep)

-----------------------------------------------------------------------------
(* A component that is not running in the specification at hand *)
IdleFetch ==
    /\ fn = "none" /\ keys = <<>> /\ api_key = "" /\ max_workers = 0
    /\ cpc = "idle" /\ futures = <<>> /\ results = <<>>
IdlePoll ==
    /\ max_wait = 0 /\ interval = 0 /\ elapsed = 0 /\ ppc = "idle"
    /\ data = None /\ presult = None /\ sleeps = 0 /\ queries = 0
IdleWeb ==
    /\ topic = "" /\ depth = "" /\ wpc = "idle" /\ wqueries = <<>> /\ qi = 0
    /\ issued = <<>> /\ errors = 0 /\ items = <<>> /\ all_items = <<>>
    /\ all_overviews = <<>> /\ seen_urls = {} /\ wresult = None
IdleYT ==
    /\ yapi_key = "" /\ ytopic = "" /\ core_topic = "" /\ ydepth = ""
    /\ from_date = "" /\ ypc = "idle"
    /\ page_token = None /\ remaining = 0 /\ all_video_ids = <<>>
    /\ all_snippets = <<>> /\ bi = 0 /\ stats = <<>> /\ batches = <<>>
    /\ yitems = <<>> /\ recent = <<>> /\ yresult = None /\ requested = <<>>
IdleTranscript ==
    /\ tapi_key = "" /\ tpc = "idle" /\ submitted = 0 /\ polled = 0
    /\ job_id = None /\ answer = None /\ tresult = None
IdlePure == call = None /\ ret = None
IdleEnrich ==
    /\ edepth = "" /\ epc = "idle" /\ search_result = None /\ eitems = <<>>
    /\ top_ids = <<>> /\ transcripts = None /\ eresult = None

-----------------------------------------------------------------------------
(***************************************************************************)
(* Parallel Fetch Coordinator                                              *)
(***************************************************************************)

(* What one fetch_transcript call can hand to its future: a returned       *)
(* transcript, a returned None, or an exception that escaped the fetch.    *)
FetchOutcomes == {<<"ret", Some(t)>> : t \in Texts} \cup {<<"ret", None>>, <<"exc">>}

DefaultWorkers(f) == IF f = "batch" THEN BatchDefaultWorkers ELSE ParallelDefaultWorkers

InitFetch ==
    /\ fn \in {"batch", "parallel"}
    /\ keys \in InputLists
    /\ api_key \in (IF fn = "batch" THEN {"", "key"} ELSE {""})
    /\ max_workers \in (1..MaxWorkers) \cup {DefaultWorkers(fn)}
    /\ cpc = "start"
    /\ futures = <<>>
    /\ results = <<>>
    /\ IdlePoll /\ IdleWeb /\ IdleYT /\ IdleTranscript /\ IdlePure /\ IdleEnrich

(* The early return: "if not urls or not api_key" / "if not video_ids" *)
EarlyReturn == \/ Len(keys) = 0
               \/ (fn = "batch" /\ api_key = "")

InFlight == {t \in 1..Len(futures) : futures[t].state = "running"}
Queued == {t \in 1..Len(futures) : futures[t].state = "queued"}
Finished == {t \in 1..Len(futures) : futures[t].state \in {"done", "collected"}}

(* ThreadPoolExecutor(max_workers): work items are taken from the queue in *)
(* submission order, by at most max_workers threads.                       *)
CanStartNoCap(t) ==
    /\ t \in Queued
    /\ \A u \in Queued : t <= u
CanStart(t) ==
    /\ t \in Queued
    /\ \A u \in Queued : t <= u
    /\ Cardinality(InFlight) < max_workers

(* results[key] = value *)
SetItemKeepFirst(d, k, v) ==
    [x \in DOMAIN d \cup {k} |-> IF x \in DOMAIN d THEN d[x] ELSE v]
SetItem(d, k, v) ==
    [x \in DOMAIN d \cup {k} |-> IF x = k THEN v ELSE d[x]]

(* try: results[k] = future.result()  except Exception: results[k] = None *)
FutureValueRaw(out) == IF out[1] = "exc" THEN Some("") ELSE out[2]
FutureValue(out) == IF out[1] = "exc" THEN None ELSE out[2]

Begin ==
    /\ cpc = "start"
    /\ IF EarlyReturn
         THEN cpc' = "returned"
         ELSE cpc' = "submit"
    /\ UNCHANGED <<fn, keys, api_key, max_workers, futures, results, notFetch>>

(* executor.submit(fetch_transcript, key): one per element of the list;    *)
(* after the last one the caller enters as_completed(futures).             *)
Submit ==
    /\ cpc = "submit"
    /\ Len(futures) < Len(keys)
    /\ LET t == Len(futures) + 1
           fs == Append(futures, [key |-> keys[t], state |-> "queued", out |-> <<>>])
       IN /\ futures' = fs
          /\ cpc' = IF t = Len(keys) THEN "collect" ELSE "submit"
    /\ UNCHANGED <<fn, keys, api_key, max_workers, results, notFetch>>

(* a pool thread takes the next work item *)
Start(t) ==
    /\ CanStart(t)
    /\ futures' = [futures EXCEPT ![t].state = "running"]
    /\ UNCHANGED <<fn, keys, api_key, max_workers, cpc, results, notFetch>>

(* the fetch of work item t ends with outcome out *)
Finish(t, out) ==
    /\ t \in InFlight
    /\ futures' = [futures EXCEPT ![t].state = "done", ![t].out = out]
    /\ UNCHANGED <<fn, keys, api_key, max_workers, cpc, results, notFetch>>

(* The futures as_completed can yield next. It yields those finished       *)
(* before the call in any order and the others as they complete; the call  *)
(* itself may come before or after any completion, so every order of the   *)
(* finished, not yet yielded futures arises.                               *)
NextYield == {t \in 1..Len(futures) : futures[t].state = "done"}

(* one iteration of "for future in as_completed(futures)" *)
Collect(t) ==
    /\ cpc = "collect"
    /\ t \in NextYield
    /\ results' = SetItem(results, futures[t].key, FutureValue(futures[t].out))
    /\ futures' = [futures EXCEPT ![t].state = "collected"]
    /\ UNCHANGED <<fn, keys, api_key, max_workers, cpc, notFetch>>

AllCollected == \A t \in 1..Len(futures) : futures[t].state = "collected"

(* as_completed is exhausted, the pool is shut down, the mapping returned *)
Return ==
    /\ cpc = "collect"
    /\ AllCollected
    /\ cpc' = "returned"
    /\ UNCHANGED <<fn, keys, api_key, max_workers, futures, results, notFetch>>

NextFetch ==
    \/ Begin
    \/ Submit
    \/ \E t \in 1..Len(futures) : Start(t)
    \/ \E t \in 1..Len(futures) : \E out \in FetchOutcomes : Finish(t, out)
    \/ \E t \in 1..Len(futures) : Collect(t)
    \/ Return

SpecFetch == InitFetch /\ [][NextFetch]_vars

(* Pool threads run, fetches end (every network call is bounded by a       *)
(* timeout), and the calling thread keeps iterating.                       *)
FairFetch == SpecFetch /\ WF_vars(NextFetch)

-----------------------------------------------------------------------------
(***************************************************************************)
(* Claims about the Parallel Fetch Coordinator                             *)
(***************************************************************************)

Range(s) == {s[i] : i \in 1..Len(s)}
Distinct(s) == \A i, j \in 1..Len(s) : s[i] = s[j] => i = j

(* the fetch of work item t failed: it raised, or returned no transcript *)
Failed(t) == futures[t].out \in {<<"exc">>, <<"ret", None>>}
FailedItems == {t \in 1..Len(futures) : Failed(t)}
NullKeys == {k \in DOMAIN results : results[k] = None}

(* a call that passed the early return and has returned its mapping *)
Dispatched == ~EarlyReturn
ReturnedMapping == cpc = "returned" /\ (Dispatched \/ Len(keys) = 0)

(* C1 as stated: the returned mapping has exactly N entries for an input   *)
(* list of N keys, exactly K of them null when K fetches failed.           *)
C1_Original ==
    ReturnedMapping =>
        /\ Cardinality(DOMAIN results) = Len(keys)
        /\ Cardinality(NullKeys) = Cardinality(FailedItems)

(* C1 amended: the returned mapping has exactly one entry per distinct     *)
(* input key, holding the result of one of that key's fetches (null when   *)
(* that fetch failed, its transcript otherwise); for N pairwise distinct   *)
(* keys of which K fail it has N entries, exactly K of them null.          *)
C1_OneEntryPerDistinctKey ==
    ReturnedMapping =>
        /\ DOMAIN results = Range(keys)
        /\ \A k \in DOMAIN results :
              \E t \in 1..Len(futures) :
                  /\ futures[t].key = k
                  /\ Failed(t) => results[k] = None
                  /\ ~Failed(t) => results[k] = futures[t].out[2] /\ results[k] # None
        /\ Distinct(keys) =>
              /\ Cardinality(DOMAIN results) = Len(keys)
              /\ Cardinality(NullKeys) = Cardinality(FailedItems)

(* three distinct keys, fetched out of submission order, one raising, one  *)
(* returning nothing, one succeeding                                       *)
C1_Witness ==
    /\ ReturnedMapping
    /\ Len(keys) = 3 /\ Distinct(keys)
    /\ futures[1].out = <<"exc">>
    /\ futures[2].out = <<"ret", None>>
    /\ futures[3].out[1] = "ret" /\ futures[3].out[2] # None
    /\ Cardinality(NullKeys) = 2

(* C9 as stated: each key of the result mapping is written at most once:   *)
(* no iteration of the collection loop assigns a key that is already in    *)
(* the mapping.                                                            *)
C9_WrittenAtMostOnce ==
    [][\A t \in 1..Len(futures) :
          Collect(t) => futures[t].key \notin DOMAIN results]_vars

(* C10: the number of fetches in flight never exceeds max_workers, and     *)
(* every key's fetch of a dispatched batch is eventually started and       *)
(* finished (the call returns with every work item collected).             *)
C10_WorkerCap ==
    /\ [](Cardinality(InFlight) <= max_workers)
    /\ (Dispatched =>
          <>(/\ cpc = "returned"
             /\ Len(futures) = Len(keys)
             /\ \A t \in 1..Len(futures) : futures[t].state = "collected"))

(* the cap binds: max_workers >= 2 fetches in flight and another one queued *)
C10_Witness ==
    /\ max_workers >= 2
    /\ Cardinality(InFlight) = max_workers
    /\ Queued # {}

-----------------------------------------------------------------------------
(***************************************************************************)
(* Async Job Poller: _poll_job(job_id, api_key, max_wait, interval)        *)
(***************************************************************************)

(* What one status query can give: an exception (transport or decoding),   *)
(* or a decoded object with an optional status and an optional content.    *)
Statuses == {Some("completed"), Some("failed"), Some("processing"), None}
Contents == {None, Some(""), Some("tx"), Some("ty")}
StatusResponses ==
    {[kind |-> "exc", status |-> None, content |-> None]}
    \cup {[kind |-> "json", status |-> st, content |-> c] : st \in Statuses, c \in Contents}

InitPoll ==
    /\ max_wait \in (0..MaxWaitTried) \cup {DefaultMaxWait}
    /\ interval \in (1..MaxIntervalTried) \cup {DefaultInterval}
    /\ elapsed = 0
    /\ ppc = "loop"
    /\ data = None
    /\ presult = None
    /\ sleeps = 0
    /\ queries = 0
    /\ IdleFetch /\ IdleWeb /\ IdleYT /\ IdleTranscript /\ IdlePure /\ IdleEnrich

(* data.get("content") or "" *)
ContentOrEmpty(r) == IF Truthy(r.content) THEN r.content[1] ELSE ""

(* status == "completed":  return content if content else None *)
CompletedResultKeepEmpty(r) == Some(ContentOrEmpty(r))
CompletedResult(r) ==
    IF ContentOrEmpty(r) # "" THEN Some(ContentOrEmpty(r)) ELSE None

(* the answer ends the loop: an exception, completed or failed *)
TerminalStatusOnly(r) ==
    r.kind = "json" /\ r.status \in {Some("completed"), Some("failed")}
Terminal(r) ==
    \/ r.kind = "exc"
    \/ r.status \in {Some("completed"), Some("failed")}

(* the value returned on a terminal answer *)
TerminalResult(r) ==
    IF r.kind = "json" /\ r.status = Some("completed")
      THEN CompletedResult(r)
      ELSE None

(* while elapsed < max_wait: time.sleep(interval); elapsed += interval *)
PollSleepOneMore ==
    /\ ppc = "loop"
    /\ elapsed <= max_wait
    /\ elapsed' = elapsed + interval
    /\ sleeps' = sleeps + 1
    /\ ppc' = "query"
    /\ UNCHANGED <<max_wait, interval, data, presult, queries, notPoll>>
PollSleep ==
    /\ ppc = "loop"
    /\ elapsed < max_wait
    /\ elapsed' = elapsed + interval
    /\ sleeps' = sleeps + 1
    /\ ppc' = "query"
    /\ UNCHANGED <<max_wait, interval, data, presult, queries, notPoll>>

(* the status query of one iteration and the branches on its answer *)
PollQuery(r) ==
    /\ ppc = "query"
    /\ queries' = queries + 1
    /\ data' = Some(r)
    /\ IF Terminal(r)
         THEN /\ presult' = TerminalResult(r)
              /\ ppc' = "done"
         ELSE /\ presult' = presult
              /\ ppc' = "loop"
    /\ UNCHANGED <<max_wait, interval, elapsed, sleeps, notPoll>>

(* the loop condition fails: "timed out", return None *)
PollTimeout ==
    /\ ppc = "loop"
    /\ ~(elapsed < max_wait)
    /\ presult' = None
    /\ ppc' = "done"
    /\ UNCHANGED <<max_wait, interval, elapsed, data, sleeps, queries, notPoll>>

NextPoll ==
    \/ PollSleep
    \/ \E r \in StatusResponses : PollQuery(r)
    \/ PollTimeout

SpecPoll == InitPoll /\ [][NextPoll]_vars

(* the thread that called _poll_job keeps running *)
FairPoll == SpecPoll /\ WF_vars(NextPoll)

-----------------------------------------------------------------------------
(***************************************************************************)
(* Claims about the Async Job Poller                                       *)
(***************************************************************************)

(* the last answer observed, when there is one *)
Observed(st) == data # None /\ data[1].kind = "json" /\ data[1].status = Some(st)
NonEmptyContent == Truthy(data[1].content)

(* C2: the poller returns non-null only when a status query observed       *)
(* completed with non-empty content, and then exactly that content;        *)
(* completed with empty or missing content, failed, and a job that is      *)
(* non-terminal until the budget is used up all give null.                 *)
C2_PollResult ==
    ppc = "done" =>
        /\ presult # None =>
              /\ Observed("completed") /\ NonEmptyContent
              /\ presult = data[1].content
        /\ Observed("completed") /\ NonEmptyContent => presult = data[1].content
        /\ Observed("completed") /\ ~NonEmptyContent => presult = None
        /\ Observed("failed") => presult = None
        /\ ~Observed("completed") /\ ~Observed("failed") => presult = None

(* completed with empty content at the third query, null returned *)
C2_WitnessEmpty ==
    /\ ppc = "done" /\ queries = 3
    /\ Observed("completed") /\ data[1].content = Some("")
    /\ presult = None

(* a status query raised *)
QueryRaised == data # None /\ data[1].kind = "exc"

(* C16: when a status query raises, _poll_job returns null at once: after  *)
(* the failing query there is no further sleep and no further status       *)
(* query, whatever is left of the budget                                   *)
C16_AbortOnException ==
    /\ [](QueryRaised => ppc = "done" /\ presult = None)
    /\ [][QueryRaised => sleeps' = sleeps /\ queries' = queries /\ presult' = presult]_vars

(* the second query raised with budget left *)
C16_Witness ==
    /\ QueryRaised
    /\ ppc = "done"
    /\ queries = 2
    /\ elapsed + interval < max_wait

CeilDiv(a, b) == (a + b - 1) \div b
(* each query comes after a sleep of its own, every sleep is one interval *)
Paced ==
    /\ sleeps = queries + (IF ppc = "query" THEN 1 ELSE 0)
    /\ elapsed = sleeps * interval
    /\ queries <= CeilDiv(max_wait, interval)

(* C17 as stated: _poll_job terminates, each status query follows a sleep  *)
(* of its own, there are at most ceil(max_wait / interval) queries, and no *)
(* query is sent once the time slept has reached the budget                *)
C17_Original ==
    /\ <>(ppc = "done")
    /\ []Paced
    /\ [][queries' > queries => elapsed < max_wait]_vars

(* C17: _poll_job terminates, each status query follows a sleep of its     *)
(* own, there are at most ceil(max_wait / interval) queries (20 for 60 and *)
(* 3), no sleep starts once the time slept has reached the budget, and a   *)
(* query is sent only after a sleep that started below the budget          *)
C17_TerminationAndPacing ==
    /\ <>(ppc = "done")
    /\ []Paced
    /\ [][sleeps' > sleeps => elapsed < max_wait]_vars
    /\ [][queries' > queries => elapsed - interval < max_wait /\ ppc = "query"]_vars
    /\ [](max_wait = DefaultMaxWait /\ interval = DefaultInterval => queries <= 20)

(* the job stayed pending for the whole default budget: 20 queries, the    *)
(* last of them sent after 60 units of sleep                               *)
C17_Witness ==
    /\ ppc = "done"
    /\ max_wait = DefaultMaxWait /\ interval = DefaultInterval
    /\ queries = 20 /\ sleeps = 20 /\ elapsed = 60
    /\ ~QueryRaised /\ data[1].status = Some("processing")

-----------------------------------------------------------------------------
(***************************************************************************)
(* Transcript fetch: fetch_transcript(video_url, api_key) of supadata.py,  *)
(* with the run of _poll_job it starts                                     *)
(***************************************************************************)

(* What the transcription request can give: urlopen returns a response     *)
(* with a status and a body that decodes or not, it raises HTTPError with  *)
(* a code and such a body, or it raises URLError.                          *)
JobIds == {Missing, None, Some(""), Some("j1")}
SubmitContents == {Missing, None, Some(""), Some("  "), Some(" tx ")}
Answer(kind, status, decodes, content, jobId) ==
    [kind |-> kind, status |-> status, decodes |-> decodes, content |-> content,
     jobId |-> jobId]
SubmitResponses ==
    { Answer("resp", StatusSync, TRUE, c, Missing) : c \in SubmitContents }
    \cup { Answer(k, StatusAsync, TRUE, Missing, j) : k \in {"resp", "httperror"}, j \in JobIds }
    \cup { Answer("resp", StatusAsync, TRUE, Some(" tx "), Some("j1")),
           Answer("resp", StatusSync, TRUE, Some(" tx "), Some("j1")),
           Answer("resp", 204, TRUE, Some(" tx "), Some("j1")),
           Answer("resp", StatusSync, FALSE, Missing, Missing),
           Answer("resp", StatusAsync, FALSE, Missing, Missing),
           Answer("httperror", StatusAsync, FALSE, Missing, Missing),
           Answer("httperror", 404, TRUE, Some(" tx "), Some("j1")),
           Answer("urlerror", 0, FALSE, Missing, Missing) }

(* _truncate(text, max_words) *)
(* text.split() and sep.join(parts[lo..hi]) for texts of hundreds of      *)
(* words, computed by halves: the words of the two halves of the text,     *)
(* the last word of the left half and the first of the right half being    *)
(* one word when no whitespace separates them                              *)
MergeWords(a, b, glued) ==
    IF glued
      THEN SubSeq(a, 1, Len(a) - 1) \o <<a[Len(a)] \o b[1]>> \o Tail(b)
      ELSE a \o b
RECURSIVE WordsIn(_, _, _)
WordsIn(s, lo, hi) ==
    IF lo > hi THEN <<>>
    ELSE IF lo = hi THEN (IF IsSpace(Ch(s, lo)) THEN <<>> ELSE <<Ch(s, lo)>>)
    ELSE MergeWords(WordsIn(s, lo, (lo + hi) \div 2),
                    WordsIn(s, (lo + hi) \div 2 + 1, hi),
                    ~IsSpace(Ch(s, (lo + hi) \div 2)) /\ ~IsSpace(Ch(s, (lo + hi) \div 2 + 1)))
Words(s) == WordsIn(s, 1, Len(s))
RECURSIVE JoinRange(_, _, _, _)
JoinRange(parts, lo, hi, sep) ==
    IF lo > hi THEN ""
    ELSE IF lo = hi THEN parts[lo]
    ELSE JoinRange(parts, lo, (lo + hi) \div 2, sep) \o sep
         \o JoinRange(parts, (lo + hi) \div 2 + 1, hi, sep)

TruncateWordsAtBudget(text, words, max_words) ==
    IF Len(words) >= max_words
      THEN JoinRange(words, 1, max_words, " ") \o "..."
      ELSE text
TruncateWords(text, words, max_words) ==
    IF Len(words) > max_words
      THEN JoinRange(words, 1, max_words, " ") \o "..."
      ELSE text
truncate(text) == TruncateWords(text, Words(text), TRANSCRIPT_MAX_WORDS)

(* if content: return _truncate(content.strip()); return None *)
TranscriptOf(content) ==
    IF Truthy(content) THEN Some(truncate(Strip(content[1]))) ELSE None

(* the branches that reach _poll_job: status 202, or HTTPError with code   *)
(* 202, with a body that decodes and holds a jobId                         *)
StartsJobWithoutId(r) ==
    /\ r.kind \in {"resp", "httperror"}
    /\ r.status = StatusAsync
    /\ r.decodes
StartsJob(r) ==
    /\ r.kind \in {"resp", "httperror"}
    /\ r.status = StatusAsync
    /\ r.decodes
    /\ Truthy(Get(r.jobId, None))

(* what is returned without polling *)
SyncResult(r) ==
    IF r.kind = "resp" /\ r.decodes /\ r.status = StatusSync
      THEN TranscriptOf(Get(r.content, None))
      ELSE None

InitTranscript ==
    /\ tapi_key \in {"", "key"}
    /\ tpc = "start"
    /\ submitted = 0 /\ polled = 0 /\ job_id = None /\ answer = None /\ tresult = None
    /\ IdleFetch /\ IdlePoll /\ IdleWeb /\ IdleYT /\ IdlePure /\ IdleEnrich

(* if not api_key: return None *)
TNoKey ==
    /\ tpc = "start"
    /\ tapi_key = ""
    /\ tresult' = None
    /\ tpc' = "returned"
    /\ UNCHANGED <<tapi_key, submitted, polled, job_id, answer, pollVars, notTranscript>>

(* content = _poll_job(job_id, api_key): the call, with the defaults *)
PollCalled(j) ==
    /\ job_id' = j
    /\ polled' = polled + 1
    /\ max_wait' = DefaultMaxWait /\ interval' = DefaultInterval
    /\ elapsed' = 0 /\ ppc' = "loop" /\ data' = None /\ presult' = None
    /\ sleeps' = 0 /\ queries' = 0
    /\ tpc' = "polling"
    /\ UNCHANGED tresult

(* the transcription request answering r, and the branches on the answer *)
TSubmit(r) ==
    /\ tpc = "start"
    /\ tapi_key # ""
    /\ submitted' = submitted + 1
    /\ answer' = Some(r)
    /\ IF StartsJob(r)
         THEN PollCalled(r.jobId)
         ELSE /\ tresult' = SyncResult(r)
              /\ tpc' = "returned"
              /\ UNCHANGED <<polled, job_id, pollVars>>
    /\ UNCHANGED <<tapi_key, notTranscript>>

(* _poll_job has returned: if content: return _truncate(content.strip()) *)
TFinishRetry ==
    /\ tpc = "polling"
    /\ ppc = "done"
    /\ IF Truthy(presult)
         THEN tresult' = TranscriptOf(presult) /\ tpc' = "returned"
         ELSE tresult' = tresult /\ tpc' = "start"
    /\ UNCHANGED <<tapi_key, submitted, polled, job_id, answer, pollVars, notTranscript>>
TFinish ==
    /\ tpc = "polling"
    /\ ppc = "done"
    /\ tresult' = TranscriptOf(presult)
    /\ tpc' = "returned"
    /\ UNCHANGED <<tapi_key, submitted, polled, job_id, answer, pollVars, notTranscript>>

NextTranscript ==
    \/ TNoKey
    \/ \E r \in SubmitResponses : TSubmit(r)
    \/ PollSleep
    \/ \E r \in StatusResponses : PollQuery(r)
    \/ PollTimeout
    \/ TFinish

SpecTranscript == InitTranscript /\ [][NextTranscript]_vars

-----------------------------------------------------------------------------
(***************************************************************************)
(* Claims about the transcript job                                         *)
(***************************************************************************)

(* The status of the job of the call: none before a job exists, pending    *)
(* until a status query observes completed or failed or the budget is      *)
(* used up; a job the poller gave up on after an exception stays pending.  *)
JobStatus ==
    IF job_id = None THEN "none"
    ELSE IF Observed("completed") THEN "completed"
    ELSE IF Observed("failed") THEN "failed"
    ELSE IF ppc = "done" /\ ~QueryRaised THEN "timed_out"
    ELSE "pending"
JobTerminal == JobStatus \in {"completed", "failed", "timed_out"}
(* the step is one of the poller's: the query or the failing loop test *)
InsidePoller == tpc = "polling" /\ ppc \in {"loop", "query"} /\ ppc' = "done"

(* C18: the status of a job only moves from pending to completed, failed   *)
(* or timed_out, and only in a step of the poller; once it is terminal no  *)
(* status query follows and nothing is submitted again: one call of        *)
(* fetch_transcript makes at most one submission and one poller run        *)
C18_JobLifecycle ==
    /\ [](submitted <= 1 /\ polled <= submitted /\ (job_id # None <=> polled = 1))
    /\ [][JobStatus' # JobStatus =>
            \/ JobStatus = "none" /\ JobStatus' = "pending"
            \/ JobStatus = "pending" /\ JobTerminal' /\ InsidePoller]_vars
    /\ [][JobTerminal =>
            queries' = queries /\ sleeps' = sleeps /\ submitted' = submitted
            /\ polled' = polled /\ job_id' = job_id]_vars

(* the job failed at its second status query and the fetch returned null   *)
(* after one submission and one poller run                                 *)
C18_Witness ==
    /\ tpc = "returned"
    /\ JobStatus = "failed"
    /\ queries = 2
    /\ submitted = 1 /\ polled = 1
    /\ tresult = None

(* the answer to the transcription request: a 200 with content, a 202     *)
(* with a job identifier                                                   *)
Present(f) == f \notin {Missing, None, Some("")}
Is200WithContent ==
    /\ answer[1].kind = "resp" /\ answer[1].decodes
    /\ answer[1].status = 200
    /\ Present(answer[1].content)
Is202WithJob ==
    /\ answer[1].kind \in {"resp", "httperror"} /\ answer[1].decodes
    /\ answer[1].status = 202
    /\ Present(answer[1].jobId)
PolledContent == IF Present(presult) THEN Some(truncate(Strip(presult[1]))) ELSE None
PolledContentAsIs == IF Present(presult) THEN Some(truncate(presult[1])) ELSE None

(* C21 as stated: fetch_transcript never raises; a 200 with content        *)
(* returns that content, truncated, without a poller run; the poller runs  *)
(* if and only if the answer is a 202 with a job identifier, and its       *)
(* content is returned truncated; everything else returns null             *)
C21_Original ==
    answer # None =>
        /\ tpc \in {"polling", "returned"}
        /\ polled = 1 <=> Is202WithJob
        /\ tpc = "returned" =>
              /\ Is200WithContent =>
                    polled = 0 /\ tresult = Some(truncate(answer[1].content[1]))
              /\ Is202WithJob => tresult = PolledContentAsIs
              /\ ~Is200WithContent /\ ~Is202WithJob => tresult = None

(* C21: fetch_transcript never raises; a 200 with content returns that     *)
(* content stripped of surrounding whitespace and truncated (the empty     *)
(* string for content of whitespace only), without a poller run; the       *)
(* poller runs if and only if the answer is a 202 with a job identifier,   *)
(* and its content is returned stripped and truncated; everything else     *)
(* returns null                                                            *)
C21_Dispatch ==
    answer # None =>
        /\ tpc \in {"polling", "returned"}
        /\ polled = 1 <=> Is202WithJob
        /\ tpc = "returned" =>
              /\ Is200WithContent =>
                    polled = 0 /\ tresult = Some(truncate(Strip(answer[1].content[1])))
              /\ Is202WithJob => tresult = PolledContent
              /\ ~Is200WithContent /\ ~Is202WithJob => tresult = None

(* a 202 with a job identifier, delivered as HTTPError, started the poller *)
(* and the content of the second status query was returned                 *)
C21_Witness ==
    /\ tpc = "returned"
    /\ answer # None /\ answer[1].kind = "httperror" /\ Is202WithJob
    /\ polled = 1 /\ queries = 2
    /\ presult = Some("tx")
    /\ tresult = Some("tx")

-----------------------------------------------------------------------------
(***************************************************************************)
(* AI-overview search: dataforseo_search.py                                *)
(***************************************************************************)

EXCLUDED_DOMAINS ==
    {"reddit.com", "www.reddit.com", "old.reddit.com",
     "twitter.com", "www.twitter.com", "x.com", "www.x.com"}

(* _build_structured_queries *)
QueryTemplates(t) ==
    << "What are the biggest " \o t \o " trends and what's driving them?",
       "Who are the top influencers and brands in " \o t \o " right now?",
       "What do experts recommend for " \o t \o " in 2026?" >>

QueryCountDeepDefault(d) ==
    IF d = "quick" THEN 1 ELSE 3
QueryCount(d) ==
    IF d = "quick" THEN 1
    ELSE IF d = "default" THEN 2
    ELSE IF d = "deep" THEN 3
    ELSE 2

build_structured_queries(t, d) ==
    SubSeq(QueryTemplates(t), 1, Min(QueryCount(d), Len(QueryTemplates(t))))

(* urllib.parse.urlsplit(url).netloc: leading control characters and      *)
(* spaces are stripped and every tab, carriage return and newline is       *)
(* removed; a leading scheme (a letter, then letters, digits, "+", "-",    *)
(* ".", up to the first ":") is cut off; what follows a leading "//" up to *)
(* the first "/", "?" or "#" is the netloc. An unbalanced "[" or "]" in    *)
(* it raises ValueError, and so does a bracketed host that is neither an   *)
(* IPv6 nor an IPvFuture address.                                          *)
Sanitized(url) ==
    ReplaceCh(ReplaceCh(ReplaceCh(LStrip(url), "\t", ""), "\r", ""), "\n", "")
IsSchemeCh(c) == IsAlpha(c) \/ IsDigit(c) \/ c \in {"+", "-", "."}
HasScheme(url, i) ==
    /\ i > 1
    /\ IsAlpha(Ch(url, 1))
    /\ \A j \in 1..(i - 1) : IsSchemeCh(Ch(url, j))
CutScheme(url, i) == IF HasScheme(url, i) THEN From(url, i + 1) ELSE url
AfterSchemeOf(url) == CutScheme(url, Index(url, ":"))
AfterScheme(url) == AfterSchemeOf(Sanitized(url))
RECURSIVE NetlocEnd(_, _)
NetlocEnd(s, i) ==
    IF i > Len(s) \/ Ch(s, i) \in {"/", "?", "#"} THEN i - 1 ELSE NetlocEnd(s, i + 1)
NetlocOfRest(rest) ==
    IF StartsWith(rest, "//") THEN SubSeq(rest, 3, NetlocEnd(rest, 3)) ELSE ""
Netloc(url) == NetlocOfRest(AfterScheme(url))
Unbalanced(netloc) == (Index(netloc, "[") > 0) # (Index(netloc, "]") > 0)

(* ipaddress: IPv4Address(s) is accepted *)
IsHex(c) == IsDigit(c) \/ Index("abcdefABCDEF", c) > 0
IsOctet(o) ==
    /\ o # "" /\ \A j \in 1..Len(o) : IsDigit(Ch(o, j))
    /\ Len(o) <= 3
    /\ (o = "0" \/ Ch(o, 1) # "0")
    /\ DigitsValue(o, 0) <= 255
OctetsOk(octets) == Len(octets) = 4 /\ \A j \in 1..4 : IsOctet(octets[j])
IsIPv4(s) == s # "" /\ OctetsOk(SplitCh(s, "."))
(* ipaddress: IPv6Address(s) is accepted. The parts between the colons,   *)
(* an IPv4 suffix counting as two of them; "::" at most once              *)
IsHextet(p) == p # "" /\ Len(p) <= 4 /\ \A j \in 1..Len(p) : IsHex(Ch(p, j))
SkipPlaces(parts) == {i \in 2..(Len(parts) - 1) : parts[i] = ""}
PartsHi(parts, k) == IF parts[1] = "" THEN k - 2 ELSE k - 1
PartsLo(parts, k) == IF parts[Len(parts)] = "" THEN Len(parts) - k - 1 ELSE Len(parts) - k
SkipOk(parts, k) ==
    /\ parts[1] = "" => PartsHi(parts, k) = 0
    /\ parts[Len(parts)] = "" => PartsLo(parts, k) = 0
    /\ 8 - (PartsHi(parts, k) + PartsLo(parts, k)) >= 1
    /\ \A i \in 1..PartsHi(parts, k) : IsHextet(parts[i])
    /\ \A i \in (Len(parts) - PartsLo(parts, k) + 1)..Len(parts) : IsHextet(parts[i])
NoSkipOk(parts) == Len(parts) = 8 /\ \A i \in 1..8 : IsHextet(parts[i])
HextetsOk(parts) ==
    /\ Len(parts) <= 9
    /\ Cardinality(SkipPlaces(parts)) <= 1
    /\ IF SkipPlaces(parts) = {} THEN NoSkipOk(parts)
       ELSE SkipOk(parts, CHOOSE k \in SkipPlaces(parts) : TRUE)
PartsOk(parts) ==
    /\ Len(parts) >= 3
    /\ IF Index(parts[Len(parts)], ".") > 0
         THEN /\ IsIPv4(parts[Len(parts)])
              /\ HextetsOk(SubSeq(parts, 1, Len(parts) - 1) \o <<"0", "0">>)
         ELSE HextetsOk(parts)
ScopeOk(h, i) == i = 0 \/ (From(h, i + 1) # "" /\ Index(From(h, i + 1), "%") = 0)
BeforeScope(h, i) == IF i = 0 THEN h ELSE Take(h, i - 1)
IsIPv6(h) ==
    /\ ScopeOk(h, Index(h, "%"))
    /\ BeforeScope(h, Index(h, "%")) # ""
    /\ PartsOk(SplitCh(BeforeScope(h, Index(h, "%")), ":"))
(* re.match(r"\Av[a-fA-F0-9]+\..+\Z", hostname) *)
RECURSIVE HexEnd(_, _)
HexEnd(h, i) == IF i <= Len(h) /\ IsHex(Ch(h, i)) THEN HexEnd(h, i + 1) ELSE i
IsIPvFuture(h) ==
    /\ HexEnd(h, 2) >= 3
    /\ HexEnd(h, 2) < Len(h)
    /\ Ch(h, HexEnd(h, 2)) = "."
(* netloc.partition('[')[2].partition(']')[0] and _check_bracketed_host *)
UpTo(s, i) == IF i = 0 THEN s ELSE Take(s, i - 1)
BracketedHost(netloc) ==
    UpTo(From(netloc, Index(netloc, "[") + 1),
         Index(From(netloc, Index(netloc, "[") + 1), "]"))
BracketedHostRaises(h) == IF StartsWith(h, "v") THEN ~IsIPvFuture(h) ELSE ~IsIPv6(h)
NetlocCheckRaises(netloc) ==
    \/ Unbalanced(netloc)
    \/ Index(netloc, "[") > 0 /\ BracketedHostRaises(BracketedHost(netloc))
NetlocRaises(url) == NetlocCheckRaises(Netloc(url))

(* _extract_mention(ai_overview, title, domain) *)
Clean(sentence) == Take(Strip(sentence), MentionMax)
RECURSIVE FirstMention(_, _)
FirstMention(sentences, term) ==
    IF Len(sentences) = 0 THEN None
    ELSE IF Contains(Lower(sentences[1]), term) /\ Strip(sentences[1]) # ""
           THEN Some(Clean(sentences[1]))
           ELSE FirstMention(Tail(sentences), term)
RECURSIVE FirstOfTerms(_, _)
MentionOr(found, sentences, terms) ==
    IF found # None THEN found[1] ELSE FirstOfTerms(sentences, Tail(terms))
FirstOfTerms(sentences, terms) ==
    IF Len(terms) = 0 THEN ""
    ELSE MentionOr(FirstMention(sentences, Lower(terms[1])), sentences, terms)
(* words = title.split()[:4]; the title is a search term when it has two *)
TitleTerm(title, words) ==
    IF title # "" /\ Len(words) >= 2
      THEN <<Join(SubSeq(words, 1, Min(TitleWords, Len(words))), " ")>>
      ELSE <<>>
Sentences(ai_overview) == SplitCh(ReplaceCh(ai_overview, "\n", " "), ".")
extract_mention(ai_overview, title, domain) ==
    IF ai_overview = "" THEN ""
    ELSE FirstOfTerms(Sentences(ai_overview),
                      <<domain>> \o TitleTerm(title, SplitWs(title)))

(* One reference of an ai_overview entry, i counted from 1: the item it    *)
(* gives, "skip" (continue) or "raise" (an exception leaves the function). *)
ItemId(i) == "D" \o ToString(i)
Skip == [t |-> "skip"]
Raise == [t |-> "raise"]
MakeItem(i, url, domain, title, snippet, ai_overview) ==
    [t |-> "item",
     item |-> [id |-> ItemId(i),
               title |-> Take(title, TitleMax),
               url |-> url,
               source_domain |-> domain,
               snippet |-> Take(snippet, SnippetMax),
               date |-> None,
               date_confidence |-> "low",
               relevance |-> "0.75",
               why_relevant |-> extract_mention(ai_overview, title,
                                                IF domain = None THEN "" ELSE domain[1])]]
(* title and snippet stripped: if not title and not snippet: continue *)
RefStrippedKeepBlank(i, url, domain, title, snippet, ai_overview) ==
    IF ai_overview # "" /\ domain = None THEN Raise
    ELSE MakeItem(i, url, domain, title, snippet, ai_overview)
RefStripped(i, url, domain, title, snippet, ai_overview) ==
    IF title = "" /\ snippet = "" THEN Skip
    ELSE IF ai_overview # "" /\ domain = None THEN Raise
    ELSE MakeItem(i, url, domain, title, snippet, ai_overview)
(* ref.get("title", "").strip(), ref.get("text", ref.get("snippet", "")).strip() *)
RefWithText(i, url, domain, title, snippet, ai_overview) ==
    IF title = None \/ snippet = None THEN Raise
    ELSE RefStripped(i, url, domain, Strip(title[1]), Strip(snippet[1]), ai_overview)
(* the domain kept: www. cut off, or ref.get("domain", "") when urlparse raised *)
RefDomain(ref, netloc, bad) ==
    IF bad THEN Get(ref.domain, Some(""))
    ELSE IF StartsWith(netloc, "www.") THEN Some(From(netloc, 5))
    ELSE Some(netloc)
(* domain = urlparse(url).netloc.lower(); if domain in EXCLUDED_DOMAINS: continue *)
RefWithNetloc(ref, i, url, netloc, bad, ai_overview) ==
    IF ~bad /\ netloc \in EXCLUDED_DOMAINS THEN Skip
    ELSE RefWithText(i, url, RefDomain(ref, netloc, bad),
                     Get(ref.title, Some("")),
                     Get(ref.text, Get(ref.snippet, Some(""))), ai_overview)
(* url = ref.get("url", ""); if not url: continue *)
RefWithUrl(ref, i, url, ai_overview) ==
    IF ~Truthy(url) THEN Skip
    ELSE RefWithNetloc(ref, i, url[1], Lower(Netloc(url[1])), NetlocRaises(url[1]),
                       ai_overview)
NormalizeRef(ref, i, ai_overview) == RefWithUrl(ref, i, Get(ref.url, Some("")), ai_overview)

(* for i, ref in enumerate(references): ... items.append(...) *)
RECURSIVE NormalizeRefs(_, _, _, _)
AfterRef(refs, i, ai_overview, acc, r) ==
    IF r.t = "raise" THEN [ok |-> FALSE, items |-> <<>>]
    ELSE NormalizeRefs(refs, i + 1, ai_overview,
                       IF r.t = "item" THEN Append(acc, r.item) ELSE acc)
NormalizeRefs(refs, i, ai_overview, acc) ==
    IF i > Len(refs) THEN [ok |-> TRUE, items |-> acc]
    ELSE AfterRef(refs, i, ai_overview, acc, NormalizeRef(refs[i], i, ai_overview))

Raised == [ok |-> FALSE, items |-> <<>>, overview |-> ""]

(* for entry in result_items: ... *)
RECURSIVE NormalizeEntries(_, _, _, _)
AfterRefs(entries, e, ov, r) ==
    IF ~r.ok THEN Raised ELSE NormalizeEntries(entries, e + 1, ov, r.items)
(* references = entry.get("references", []) *)
EntryRefs(entries, e, ov, acc, references) ==
    IF references = None THEN Raised
    ELSE AfterRefs(entries, e, ov, NormalizeRefs(references[1], 1, ov, acc))
(* if overview_text: ai_overview = overview_text *)
EntryOverview(entries, e, ai_overview, acc, overview_text) ==
    EntryRefs(entries, e,
              IF Truthy(overview_text) THEN overview_text[1] ELSE ai_overview,
              acc, Get(entries[e].references, Some(<<>>)))
(* overview_text = entry.get("markdown", "") or entry.get("text", "") *)
OverviewText(entry, md) == IF Truthy(md) THEN md ELSE Get(entry.text, Some(""))
NormalizeEntries(entries, e, ai_overview, acc) ==
    IF e > Len(entries) THEN [ok |-> TRUE, items |-> acc, overview |-> ai_overview]
    ELSE IF Get(entries[e].type, Some("")) # Some("ai_overview")
      THEN NormalizeEntries(entries, e + 1, ai_overview, acc)
    ELSE EntryOverview(entries, e, ai_overview, acc,
                       OverviewText(entries[e], Get(entries[e].markdown, Some(""))))

(* _normalize_results(response, from_date, to_date): ok with the items and *)
(* the overview, or not ok when an exception leaves it.                    *)
NothingFound == [ok |-> TRUE, items |-> <<>>, overview |-> ""]
(* result_items = result.get("items", []) *)
NormalizeItems(result_items) ==
    IF result_items = None THEN Raised
    ELSE NormalizeEntries(result_items[1], 1, "", <<>>)
(* results = task.get("result", []); if not results: return *)
NormalizeResult(res) ==
    IF res = None \/ res[1] = <<>> THEN NothingFound
    ELSE NormalizeItems(Get(res[1][1].items, Some(<<>>)))
(* task = tasks[0]; if task.get("status_code") != 20000: return *)
NormalizeTask(task) ==
    IF task.status_code # StatusOk THEN NothingFound
    ELSE NormalizeResult(Get(task.result, Some(<<>>)))
(* tasks = response.get("tasks", []); if not tasks: return *)
NormalizeTasks(tasks) ==
    IF tasks = None \/ tasks[1] = <<>> THEN NothingFound
    ELSE NormalizeTask(tasks[1][1])
normalize_results(response) == NormalizeTasks(Get(response.tasks, Some(<<>>)))

(* url_key = item["url"].lower().rstrip("/") *)
UrlKeyCaseSensitive(u) == RStripCh(u, "/")
UrlKey(u) == RStripCh(Lower(u), "/")

(* for item in items: if url_key not in seen_urls: add, append.            *)
(* key is the url_key of each url that can occur.                          *)
RECURSIVE DedupeNewestFirst(_, _, _, _, _)
DedupeNewestFirst(its, i, acc, seen, key) ==
    IF i > Len(its) THEN [items |-> acc, seen |-> seen]
    ELSE IF key[its[i].url] \in seen
           THEN DedupeNewestFirst(its, i + 1, acc, seen, key)
           ELSE DedupeNewestFirst(its, i + 1, <<its[i]>> \o acc,
                                  seen \cup {key[its[i].url]}, key)
RECURSIVE Dedupe(_, _, _, _, _)
Dedupe(its, i, acc, seen, key) ==
    IF i > Len(its) THEN [items |-> acc, seen |-> seen]
    ELSE IF key[its[i].url] \in seen
           THEN Dedupe(its, i + 1, acc, seen, key)
           ELSE Dedupe(its, i + 1, Append(acc, its[i]), seen \cup {key[its[i].url]}, key)

(* the except clauses of the loop body: http.HTTPError, then Exception *)
CaughtHttpOnly(kind) == kind = "http"
Caught(kind) == kind \in {"http", "error"}

(* Inputs tried *)
Topics == {"ai", "e bikes"}
Depths == {"quick", "default", "deep", "thorough"}

Ref(url, title, text, snippet) ==
    [url |-> url, title |-> title, text |-> text, snippet |-> snippet, domain |-> Missing]
RefSamples ==
    { Ref(Some("http://a.io/x"), Some(" Ta one "), Missing, Missing),
      Ref(Some("HTTP://A.io/x/"), Some("Tb"), Some("sn"), Some("unused")),
      Ref(Some("https://www.b.io/"), Missing, Missing, Some("s b")),
      Ref(Some("https://www.Reddit.com/r/x"), Some("Tr"), Missing, Missing) }
OverviewSamples == {"", "Ta one is big.\nSee b.io too"}

AiOverviewEntry(ov, refs) ==
    [type |-> Some("ai_overview"), markdown |-> Some(ov), text |-> Missing,
     references |-> Some(refs)]
OrganicEntry ==
    [type |-> Some("organic"), markdown |-> Missing, text |-> Missing,
     references |-> Missing]
Body(status, result) ==
    [kind |-> "json", tasks |-> Some(<<[status_code |-> status, result |-> result]>>)]

(* What _call_api can give for one query: it raises http.HTTPError, it     *)
(* raises something else (a timeout, undecodable JSON), or it returns the  *)
(* decoded body.                                                           *)
WebResponses ==
    { [kind |-> "http", tasks |-> Missing],
      [kind |-> "error", tasks |-> Missing],
      [kind |-> "json", tasks |-> Missing],
      Body(40501, Missing),
      Body(StatusOk, None),
      Body(StatusOk, Some(<<[items |-> None]>>)),
      Body(StatusOk, Some(<<[items |-> Some(<<OrganicEntry>>)]>>)) }
    \cup { Body(StatusOk, Some(<<[items |-> Some(<<AiOverviewEntry(ov, refs)>>)]>>)) :
             ov \in OverviewSamples, refs \in SeqsUpTo(RefSamples, MaxRefs) }

(* one iteration's try block up to the dedupe loop: how it ends *)
OutcomeOfNormalized(n) ==
    IF n.ok THEN [kind |-> "ok", items |-> n.items, overview |-> n.overview]
    ELSE [kind |-> "error", items |-> <<>>, overview |-> ""]
Outcome(r) ==
    IF r.kind # "json" THEN [kind |-> r.kind, items |-> <<>>, overview |-> ""]
    ELSE OutcomeOfNormalized(normalize_results(r))
OutcomeOf == [r \in WebResponses |-> Outcome(r)]

(* the urls of the references tried, and the url_key of each *)
SampleUrls == {r.url[1] : r \in RefSamples}
UrlKeyOf == [u \in SampleUrls |-> UrlKey(u)]

OverviewSeparator == "\n\n---\n\n"

InitWeb ==
    /\ topic \in Topics
    /\ depth \in Depths
    /\ wpc = "start"
    /\ wqueries = <<>>
    /\ qi = 0
    /\ issued = <<>>
    /\ errors = 0
    /\ items = <<>>
    /\ all_items = <<>>
    /\ all_overviews = <<>>
    /\ seen_urls = {}
    /\ wresult = None
    /\ IdleFetch /\ IdlePoll /\ IdleYT /\ IdleTranscript /\ IdlePure /\ IdleEnrich

(* queries = _build_structured_queries(topic, depth) and the empty locals *)
WebBuild ==
    /\ wpc = "start"
    /\ wqueries' = build_structured_queries(topic, depth)
    /\ qi' = 1
    /\ wpc' = "loop"
    /\ UNCHANGED <<topic, depth, issued, errors, items, all_items, all_overviews,
                   seen_urls, wresult, notWeb>>

(* the try block went through: the dedupe loop, the overview kept *)
WebOk(o, d) ==
    /\ items' = o.items
    /\ all_items' = d.items
    /\ seen_urls' = d.seen
    /\ all_overviews' = IF o.overview # ""
                          THEN Append(all_overviews, o.overview)
                          ELSE all_overviews
    /\ errors' = errors
    /\ qi' = qi + 1
    /\ wpc' = "loop"

(* an exception of the given kind left the try block *)
WebFailed(kind) ==
    /\ UNCHANGED <<items, all_items, seen_urls, all_overviews>>
    /\ errors' = errors + 1
    /\ IF Caught(kind)
         THEN qi' = qi + 1 /\ wpc' = "loop"
         ELSE qi' = qi /\ wpc' = "raised"

WebStep(o) ==
    IF o.kind = "ok"
      THEN WebOk(o, Dedupe(o.items, 1, all_items, seen_urls, UrlKeyOf))
      ELSE WebFailed(o.kind)

(* one iteration of "for query in queries", the provider answering r *)
WebQuery(r) ==
    /\ wpc = "loop"
    /\ qi <= Len(wqueries)
    /\ issued' = Append(issued, wqueries[qi])
    /\ WebStep(OutcomeOf[r])
    /\ UNCHANGED <<topic, depth, wqueries, wresult, notWeb>>

(* after the loop: join the overviews, return (all_items, ai_overview) *)
WebReturn ==
    /\ wpc = "loop"
    /\ qi > Len(wqueries)
    /\ wresult' = Some([items |-> all_items,
                        ai_overview |-> Join(all_overviews, OverviewSeparator)])
    /\ wpc' = "returned"
    /\ UNCHANGED <<topic, depth, wqueries, qi, issued, errors, items, all_items,
                   all_overviews, seen_urls, notWeb>>

NextWeb ==
    \/ WebBuild
    \/ \E r \in WebResponses : WebQuery(r)
    \/ WebReturn

SpecWeb == InitWeb /\ [][NextWeb]_vars

-----------------------------------------------------------------------------
(***************************************************************************)
(* Properties of search_web                                                *)
(***************************************************************************)

IsPrefix(a, b) == Len(a) <= Len(b) /\ SubSeq(b, 1, Len(a)) = a

(* The canonical key of a url: the url lowercased, trailing slash stripped *)
CanonicalKeyOf == [u \in SampleUrls |-> RStripCh(Lower(u), "/")]
CanonicalKeys(its) == {CanonicalKeyOf[its[i].url] : i \in 1..Len(its)}

(* The items of its, in order, whose canonical key is not in taken and not *)
(* the key of an earlier item of its                                       *)
RECURSIVE FirstSeen(_, _)
FirstSeen(its, taken) ==
    IF its = <<>> THEN <<>>
    ELSE IF CanonicalKeyOf[Head(its).url] \in taken
      THEN FirstSeen(Tail(its), taken)
      ELSE <<Head(its)>> \o FirstSeen(Tail(its), taken \cup {CanonicalKeyOf[Head(its).url]})

NoTwoWithOneKey(its) ==
    \A i, j \in 1..Len(its) :
        CanonicalKeyOf[its[i].url] = CanonicalKeyOf[its[j].url] => i = j

(* a step in which one query's response went through the dedupe loop *)
Merged == wpc = "loop" /\ qi' = qi + 1 /\ errors' = errors
(* a step in which one query failed *)
QueryFailed == wpc = "loop" /\ errors' = errors + 1

(* C3: the merged list never holds two items with the same canonical key   *)
(* (url lowercased, trailing slash stripped), and merging one query's list  *)
(* keeps the merged list so far as it is and appends, in order, exactly the *)
(* whole items whose key was not seen before: the first occurrence of each  *)
(* key stays, with its title, snippet and relevance, later ones are dropped *)
C3_FirstOccurrenceWins ==
    /\ [](NoTwoWithOneKey(all_items) /\ seen_urls = CanonicalKeys(all_items))
    /\ [][Merged => all_items' = all_items \o FirstSeen(items', CanonicalKeys(all_items))]_vars

(* two queries gave the same page, once as http://a.io/x and once as       *)
(* HTTP://A.io/x/, and the list returned holds the first of them only      *)
C3_Witness ==
    /\ wpc = "returned"
    /\ Len(wresult[1].items) = 1
    /\ wresult[1].items[1].url = "http://a.io/x"
    /\ wresult[1].items[1].title = "Ta one"
    /\ Len(items) = 1
    /\ items[1].url = "HTTP://A.io/x/"
    /\ items[1].title = "Tb"

(* C4: whichever queries fail, in the call or in the normalization,        *)
(* search_web does not raise; the queries are issued in the order of the   *)
(* built list and all of them are before it returns; a failed query leaves *)
(* the merged list alone, the list only grows, and every item of a query   *)
(* that succeeded has its key in the merged list; what is returned is the  *)
(* merged list; when every query failed it is the empty list and the empty *)
(* overview                                                                *)
C4_FailureIsolation ==
    /\ [](wpc # "raised")
    /\ [](IsPrefix(issued, wqueries))
    /\ [](wpc = "returned" =>
            /\ issued = wqueries
            /\ wresult[1].items = all_items
            /\ (errors = Len(wqueries) =>
                  wresult[1] = [items |-> <<>>, ai_overview |-> ""]))
    /\ [][/\ IsPrefix(all_items, all_items')
          /\ QueryFailed => (all_items' = all_items /\ all_overviews' = all_overviews)
          /\ Merged => CanonicalKeys(items') \subseteq CanonicalKeys(all_items')]_vars

(* three queries, two of them failed one after the other, and the items of *)
(* the one that succeeded are returned                                     *)
C4_Witness ==
    /\ wpc = "returned"
    /\ Len(issued) = 3
    /\ errors = 2
    /\ Len(wresult[1].items) = 2

(* every query failed: nothing is returned, and nothing was raised *)
C4_WitnessAllFailed ==
    /\ wpc = "returned"
    /\ errors = 3
    /\ wresult[1] = [items |-> <<>>, ai_overview |-> ""]

(* a is b with some of its entries left out, the others in b's order *)
RECURSIVE IsSubsequence(_, _)
IsSubsequence(a, b) ==
    IF a = <<>> THEN TRUE
    ELSE IF b = <<>> THEN FALSE
    ELSE IF Head(a) = Head(b) THEN IsSubsequence(Tail(a), Tail(b))
    ELSE IsSubsequence(a, Tail(b))
(* a step that ends one iteration of the loop over the queries *)
QueryDone == wpc = "loop" /\ qi' = qi + 1
(* what the step put into the merged list, after what was there *)
Appended == SubSeq(all_items', Len(all_items) + 1, Len(all_items'))
(* the normalized list of the query of the step, empty when it failed *)
NormalizedNow == IF Merged THEN items' ELSE <<>>

(* C23: the list search_web returns is the merged list, which each query   *)
(* in the order of issuance extends at its end by a subsequence of its     *)
(* normalized list, the items that were there keeping their places; no     *)
(* other step changes the merged list, so what is returned is a            *)
(* subsequence of the per-query normalized lists put one after the other   *)
C23_MergedOrder ==
    /\ [][IF QueryDone
            THEN /\ IsPrefix(all_items, all_items')
                 /\ IsSubsequence(Appended, NormalizedNow)
                 /\ issued' = Append(issued, wqueries[qi])
            ELSE all_items' = all_items]_vars
    /\ [](wpc = "returned" => wresult[1].items = all_items)
    /\ [](wpc = "start" => all_items = <<>>)

(* two queries answered, the second one's list holds a page the first gave *)
(* and a new one: the first query's item comes first in what is returned,  *)
(* then the new item of the second                                         *)
C23_Witness ==
    /\ wpc = "returned"
    /\ Len(issued) = 2
    /\ errors = 0
    /\ Len(items) = 2
    /\ Len(wresult[1].items) = 2
    /\ CanonicalKeyOf[items[1].url] = CanonicalKeyOf[wresult[1].items[1].url]
    /\ wresult[1].items[1] # items[1]
    /\ wresult[1].items[2] = items[2]

(* The fixed list of question templates, filled in with a topic *)
TemplateList(t) ==
    << "What are the biggest " \o t \o " trends and what's driving them?",
       "Who are the top influencers and brands in " \o t \o " right now?",
       "What do experts recommend for " \o t \o " in 2026?" >>

(* C6: the query list built for depth quick, default, deep has exactly 1,  *)
(* 2, 3 queries, and for every depth it is a prefix of the three templates *)
(* filled in with the topic                                                *)
C6_QueryBuilder ==
    wpc # "start" =>
        /\ IsPrefix(wqueries, TemplateList(topic))
        /\ depth = "quick" => Len(wqueries) = 1
        /\ depth = "default" => Len(wqueries) = 2
        /\ depth = "deep" => Len(wqueries) = 3

C6_Witness ==
    /\ wpc = "loop"
    /\ depth = "deep"
    /\ topic = "e bikes"
    /\ wqueries[3] = "What do experts recommend for e bikes in 2026?"
    /\ Len(wqueries) = 3

(* C8: in the list one search_web call returns no two items have the same  *)
(* id                                                                      *)
C8_UniqueIds ==
    wpc = "returned" =>
        \A i, j \in 1..Len(wresult[1].items) :
            wresult[1].items[i].id = wresult[1].items[j].id => i = j

-----------------------------------------------------------------------------
(***************************************************************************)
(* Video search (youtube_yt.py search_youtube)                             *)
(***************************************************************************)

(* _extract_core_subject(topic) *)
PREFIXES ==
    << "what are the best", "what is the best", "what are the latest",
       "what are people saying about", "what do people think about",
       "how do i use", "how to use", "how to",
       "what are", "what is", "tips for", "best practices for" >>
NOISE ==
    { "best", "top", "good", "great", "awesome", "killer",
      "latest", "new", "news", "update", "updates",
      "trending", "hottest", "popular", "viral",
      "practices", "features",
      "recommendations", "advice",
      "prompt", "prompts", "prompting",
      "methods", "strategies", "approaches" }
(* for p in prefixes: if text.startswith(p + ' '): text = text[len(p):].strip() *)
RECURSIVE StripPrefixes(_, _)
StripPrefixes(text, k) ==
    IF k > Len(PREFIXES) THEN text
    ELSE StripPrefixes(IF StartsWith(text, PREFIXES[k] \o " ")
                         THEN Strip(From(text, Len(PREFIXES[k]) + 1))
                         ELSE text,
                       k + 1)
(* filtered = [w for w in words if w not in noise] *)
Filter(words) == SelectSeq(words, LAMBDA w : w \notin NOISE)
(* result.rstrip('?!.') *)
RECURSIVE RStripPunct(_)
RStripPunct(s) ==
    IF s # "" /\ Ch(s, Len(s)) \in {"?", "!", "."}
      THEN RStripPunct(SubSeq(s, 1, Len(s) - 1))
      ELSE s
(* result = ' '.join(filtered) if filtered else text *)
CoreResult(text, filtered) == IF filtered # <<>> THEN Join(filtered, " ") ELSE text
CoreOfText(text) == RStripPunct(CoreResult(text, Filter(SplitWs(text))))
extract_core_subject(topic_) == CoreOfText(StripPrefixes(Strip(Lower(topic_)), 1))

(* DEPTH_CONFIG.get(depth, DEPTH_CONFIG["default"]) *)
DEPTH_CONFIG == [quick |-> 10, default |-> 20, deep |-> 40]
DepthCount(d) == IF d \in DOMAIN DEPTH_CONFIG THEN DEPTH_CONFIG[d] ELSE DEPTH_CONFIG["default"]

(* d.get(k, default) *)
DictGet(d, k, default) == IF k \in DOMAIN d THEN d[k] ELSE default

(* Comparison of str: by code point, a proper prefix is the smaller *)
AsciiOrder == "-./" \o Digits \o ":" \o UpperAlpha \o LowerAlpha
RECURSIVE StrLess(_, _)
StrLess(a, b) ==
    IF b = "" THEN FALSE
    ELSE IF a = "" THEN TRUE
    ELSE IF Ch(a, 1) = Ch(b, 1) THEN StrLess(From(a, 2), From(b, 2))
    ELSE Index(AsciiOrder, Ch(a, 1)) < Index(AsciiOrder, Ch(b, 1))
StrGE(a, b) == ~StrLess(a, b)

(* int(s.get("viewCount", 0)) *)
Count(field) == IF field = Missing THEN 0 ELSE DigitsValue(field[1], 0)

ZeroStats == [views |-> 0, likes |-> 0, comments |-> 0]

(* the place of the last element of ids that is k: in a loop of          *)
(* d[key] = value the last assignment to a key stays                       *)
LastPlace(ids, k) ==
    CHOOSE j \in 1..Len(ids) : ids[j] = k /\ \A m \in (j + 1)..Len(ids) : ids[m] # k

(* stats[v["id"]] = {...} for v in vdata.get("items", []) *)
StatsId(v) == v.id
StatsOf(v) ==
    [views |-> Count(v.statistics.viewCount),
     likes |-> Count(v.statistics.likeCount),
     comments |-> Count(v.statistics.commentCount)]
StatsIds(vitems) == [j \in 1..Len(vitems) |-> StatsId(vitems[j])]
StoreStats(st, vitems) ==
    [x \in (DOMAIN st) \cup {StatsId(vitems[j]) : j \in 1..Len(vitems)} |->
        IF \E j \in 1..Len(vitems) : StatsId(vitems[j]) = x
          THEN StatsOf(vitems[LastPlace(StatsIds(vitems), x)])
          ELSE st[x]]

(* batch = all_video_ids[i:i+50] *)
BatchToEnd(ids, i) == SubSeq(ids, i + 1, Len(ids))
BatchFrom(ids, i) == SubSeq(ids, i + 1, Min(i + StatsBatch, Len(ids)))

(* except Exception around one statistics batch *)
StatsCaught(kind) == kind \in {"http", "error"}

(* published[:10] if len(published) >= 10 else None *)
DateOf(published) == IF Len(published) >= DateLen THEN Some(Take(published, DateLen)) ELSE None

(* one element of the items list *)
VideoItem(vid, snippet, st, core) ==
    [video_id |-> vid,
     title |-> Get(snippet.title, Some(""))[1],
     url |-> "https://www.youtube.com/watch?v=" \o vid,
     channel_name |-> Get(snippet.channelTitle, Some(""))[1],
     date |-> DateOf(Get(snippet.publishedAt, Some(""))[1]),
     engagement |-> [views |-> st.views, likes |-> st.likes, comments |-> st.comments],
     duration |-> None,
     relevance |-> "0.7",
     why_relevant |-> "YouTube video about " \o core]
(* for vid in all_video_ids: items.append({...}) *)
BuildItems(ids, snippets, st, core) ==
    [i \in 1..Len(ids) |->
        VideoItem(ids[i], DictGet(snippets, ids[i], [title |-> Missing,
                                                     channelTitle |-> Missing,
                                                     publishedAt |-> Missing]),
                  DictGet(st, ids[i], ZeroStats), core)]

(* The from_date values and the videos tried: what search.list says of a  *)
(* video of each kind                                                      *)
FromDates == {"2026-01-10", "2026-01-20"}
VideoKinds == {"early", "late", "undated", "noid"}
PublishedAt(kind) ==
    CASE kind = "early" -> Some("2026-01-15T08:00:00Z")
      [] kind = "late" -> Some("2026-01-25T09:30:00Z")
      [] OTHER -> Missing
(* the dates these give, and d >= from for each of them *)
SampleDates == {DateOf(Get(PublishedAt(k), Some(""))[1]) : k \in VideoKinds} \ {None}
NotBefore == [d \in SampleDates, f \in FromDates |-> StrGE(d[1], f)]

(* i["date"] and i["date"] >= from_date *)
IsRecent(item, from) ==
    /\ item.date # None
    /\ item.date[1] # ""
    /\ NotBefore[item.date, from]
(* recent = [i for i in items if ...] *)
SelectRecent(its, from) == SelectSeq(its, LAMBDA x : IsRecent(x, from))
(* if len(recent) >= 3: items = recent *)
KeepRecentAlways(its, rec) == rec
KeepRecent(its, rec) == IF Len(rec) >= RecentMin THEN rec ELSE its

(* items.sort(key=views, reverse=True): stable, equal views keep their      *)
(* order. The place of its[i] after the sort is one more than the number of *)
(* items that go before it.                                                 *)
GoesBeforeTiesReversed(its, j, i) ==
    \/ its[j].engagement.views > its[i].engagement.views
    \/ its[j].engagement.views = its[i].engagement.views /\ j > i
GoesBefore(its, j, i) ==
    \/ its[j].engagement.views > its[i].engagement.views
    \/ its[j].engagement.views = its[i].engagement.views /\ j < i
PlaceAfterSort(its, i) == 1 + Cardinality({j \in 1..Len(its) : GoesBefore(its, j, i)})
SortByViews(its) ==
    [p \in 1..Len(its) |-> its[CHOOSE i \in 1..Len(its) : PlaceAfterSort(its, i) = p]]

(* Inputs tried *)
YtDepths == {"quick", "deep", "thorough"}
YtTopics == {"e bikes"}
(* the n-th video the search endpoint has handed out *)
VideoId(n) == "v" \o ToString(n)
SearchItem(kind, n) ==
    [videoId |-> IF kind = "noid" THEN None ELSE Some(VideoId(n)),
     snippet |-> [title |-> Some(kind), channelTitle |-> Missing,
                  publishedAt |-> PublishedAt(kind)]]
(* one page more than a statistics batch long: the code takes every item   *)
(* of a page, it does not cut a page down to maxResults                    *)
LongPage == [i \in 1..(StatsBatch + 1) |-> "late"]
Pages == SeqsUpTo(VideoKinds, MaxVideos) \cup {LongPage}
(* search.list fails, or gives a page: any of them as the last one, the    *)
(* short ones also with a nextPageToken                                    *)
SearchErrors == {"timed out", "HTTP Error 403: Forbidden"}
SearchResponses ==
    {[kind |-> "fail", page |-> <<>>, next |-> None, err |-> e] : e \in SearchErrors}
    \cup {[kind |-> "ok", page |-> pg, next |-> None, err |-> ""] : pg \in Pages}
    \cup {[kind |-> "ok", page |-> pg, next |-> Some("p2"), err |-> ""] :
             pg \in SeqsUpTo(VideoKinds, 2)}

(* What videos.list answers for one batch: an error, or statistics in one  *)
(* of three shapes of all the videos asked for, or of every second one     *)
StatsShapes == {"rising", "same", "hidden"}
StatsResponses ==
    {[kind |-> "http", shape |-> "", every |-> 0], [kind |-> "error", shape |-> "", every |-> 0]}
    \cup {[kind |-> "ok", shape |-> sh, every |-> 1] : sh \in StatsShapes}
    \cup {[kind |-> "ok", shape |-> "rising", every |-> 2]}
Statistics(shape, n) ==
    CASE shape = "rising" -> [viewCount |-> Some(ToString(10 * n)), likeCount |-> Some("2"),
                              commentCount |-> Missing]
      [] shape = "same" -> [viewCount |-> Some("7"), likeCount |-> Missing,
                            commentCount |-> Some("1")]
      [] OTHER -> [viewCount |-> Missing, likeCount |-> Missing, commentCount |-> Missing]
(* the items of the answer for the batch that starts after index i *)
VData(r, batch, i) ==
    SelectSeq([k \in 1..Len(batch) |->
                  [id |-> batch[k], n |-> i + k, statistics |-> Statistics(r.shape, i + k)]],
              LAMBDA v : v.n % r.every = 0)

InitYT ==
    /\ yapi_key \in {"", "key"}
    /\ ytopic \in YtTopics
    /\ core_topic = ""
    /\ ydepth \in YtDepths
    /\ from_date \in FromDates
    /\ ypc = "start"
    /\ page_token = None /\ remaining = 0 /\ all_video_ids = <<>>
    /\ all_snippets = <<>> /\ bi = 0 /\ stats = <<>> /\ batches = <<>>
    /\ yitems = <<>> /\ recent = <<>> /\ yresult = None /\ requested = <<>>
    /\ IdleFetch /\ IdlePoll /\ IdleWeb /\ IdleTranscript /\ IdlePure /\ IdleEnrich

(* if not api_key: return ...; count, the empty locals *)
YStartUnchecked ==
    /\ ypc = "start"
    /\ remaining' = DepthCount(ydepth)
    /\ core_topic' = extract_core_subject(ytopic)
    /\ ypc' = "search"
    /\ UNCHANGED <<yapi_key, ytopic, ydepth, from_date, page_token, all_video_ids, all_snippets,
                   bi, stats, batches, yitems, recent, yresult, requested, notYT>>
YStart ==
    /\ ypc = "start"
    /\ IF yapi_key = ""
         THEN /\ yresult' = Some([items |-> <<>>, error |-> Some("YOUTUBE_API_KEY not set")])
              /\ ypc' = "returned"
              /\ UNCHANGED <<remaining, core_topic>>
         ELSE /\ remaining' = DepthCount(ydepth)
              /\ core_topic' = extract_core_subject(ytopic)
              /\ ypc' = "search"
              /\ UNCHANGED yresult
    /\ UNCHANGED <<yapi_key, ytopic, ydepth, from_date, page_token, all_video_ids, all_snippets,
                   bi, stats, batches, yitems, recent, requested, notYT>>

(* for item in data.get("items", []): vid = ...; if vid: append, store *)
TakeIds(page, n) ==
    SelectSeq([k \in 1..Len(page) |-> SearchItem(page[k], n + k)],
              LAMBDA item : item.videoId # None)
FoundId(item) == item.videoId[1]
IdsOf(found) == [k \in 1..Len(found) |-> FoundId(found[k])]
StoreSnippets(sn, found) ==
    [x \in (DOMAIN sn) \cup {FoundId(found[j]) : j \in 1..Len(found)} |->
        IF \E j \in 1..Len(found) : FoundId(found[j]) = x
          THEN found[LastPlace(IdsOf(found), x)].snippet
          ELSE sn[x]]

(* the end of one iteration of the search loop, and what follows the loop *)
AfterPage(ids, next, left) ==
    /\ all_video_ids' = ids
    /\ page_token' = next
    /\ remaining' = left
    /\ IF left > 0 /\ Truthy(next)
         THEN ypc' = "search" /\ UNCHANGED yresult
         ELSE IF ids = <<>>
           THEN ypc' = "returned" /\ yresult' = Some([items |-> <<>>, error |-> None])
           ELSE ypc' = "stats" /\ UNCHANGED yresult

PageTaken(r, found) ==
    /\ all_snippets' = StoreSnippets(all_snippets, found)
    /\ AfterPage(all_video_ids \o IdsOf(found), r.next,
                 remaining - Min(remaining, SearchPageMax))

(* one iteration of "while remaining > 0", search.list answering r *)
YSearch(r) ==
    /\ ypc = "search"
    /\ remaining > 0
    /\ requested' = Append(requested, Min(remaining, SearchPageMax))
    /\ IF r.kind = "fail"
         THEN /\ yresult' = Some([items |-> <<>>,
                                   error |-> Some("YouTube API error: " \o r.err)])
              /\ ypc' = "returned"
              /\ UNCHANGED <<all_video_ids, all_snippets, page_token, remaining>>
         ELSE PageTaken(r, TakeIds(r.page, Len(all_video_ids)))
    /\ UNCHANGED <<yapi_key, ytopic, core_topic, ydepth, from_date, bi, stats, batches,
                   yitems, recent, notYT>>

(* one iteration of "for i in range(0, len(all_video_ids), 50)", the      *)
(* videos.list call answering r                                            *)
BatchSent(r, batch) ==
    /\ batches' = Append(batches, [ids |-> batch, resp |-> r])
    /\ IF r.kind = "ok"
         THEN stats' = StoreStats(stats, VData(r, batch, bi)) /\ ypc' = "stats"
         ELSE /\ UNCHANGED stats
              /\ ypc' = IF StatsCaught(r.kind) THEN "stats" ELSE "raised"
YStats(r) ==
    /\ ypc = "stats"
    /\ bi < Len(all_video_ids)
    /\ BatchSent(r, BatchFrom(all_video_ids, bi))
    /\ bi' = bi + StatsBatch
    /\ UNCHANGED <<yapi_key, ytopic, core_topic, ydepth, from_date, page_token,
                   remaining, all_video_ids,
                   all_snippets, yitems, recent, yresult, requested,
                   notYT>>

(* the loop that builds items *)
YBuild ==
    /\ ypc = "stats"
    /\ bi >= Len(all_video_ids)
    /\ yitems' = BuildItems(all_video_ids, all_snippets, stats, core_topic)
    /\ ypc' = "filter"
    /\ UNCHANGED <<yapi_key, ytopic, core_topic, ydepth, from_date, page_token,
                   remaining, all_video_ids,
                   all_snippets, bi, stats, batches, recent, yresult, requested,
                   notYT>>

(* the soft date filter *)
Filtered(rec) ==
    /\ recent' = rec
    /\ yitems' = KeepRecent(yitems, rec)
YFilter ==
    /\ ypc = "filter"
    /\ Filtered(SelectRecent(yitems, from_date))
    /\ ypc' = "sort"
    /\ UNCHANGED <<yapi_key, ytopic, core_topic, ydepth, from_date, page_token,
                   remaining, all_video_ids,
                   all_snippets, bi, stats, batches, yresult, requested,
                   notYT>>

(* items.sort(...); return {"items": items}. When the filter kept recent,  *)
(* items is the list object recent, and sorting it in place sorts recent   *)
Sorted(its) ==
    /\ yitems' = its
    /\ recent' = IF Len(recent) >= RecentMin THEN its ELSE recent
    /\ yresult' = Some([items |-> its, error |-> None])
YSort ==
    /\ ypc = "sort"
    /\ Sorted(SortByViews(yitems))
    /\ ypc' = "returned"
    /\ UNCHANGED <<yapi_key, ytopic, core_topic, ydepth, from_date, page_token,
                   remaining, all_video_ids, all_snippets, bi, stats, batches,
                   requested, notYT>>

NextYT ==
    \/ YStart
    \/ \E r \in SearchResponses : YSearch(r)
    \/ \E r \in StatsResponses : YStats(r)
    \/ YBuild
    \/ YFilter
    \/ YSort

SpecYT == InitYT /\ [][NextYT]_vars

-----------------------------------------------------------------------------
(***************************************************************************)
(* Properties of search_youtube                                            *)
(***************************************************************************)

(* an item with a known date that is not before from_date *)
KnownRecent(item) == item.date # None /\ ~StrLess(item.date[1], from_date)
NumberRecent(its) == Cardinality({i \in 1..Len(its) : KnownRecent(its[i])})

(* C5: when fewer than 3 items have a known date >= from_date the soft     *)
(* date filter leaves the list as it is; when 3 or more have one it leaves *)
(* exactly those items, in the order they had                              *)
C5_RecencyFilter ==
    [][ypc = "filter" =>
         /\ NumberRecent(yitems) < 3 => yitems' = yitems
         /\ NumberRecent(yitems) >= 3 => yitems' = SelectSeq(yitems, KnownRecent)]_vars

(* four videos were found, one published before from_date and one with no *)
(* date among them, and the filter has left the other two and a third      *)
C5_Witness ==
    /\ ypc = "sort"
    /\ from_date = "2026-01-20"
    /\ Len(all_video_ids) = 4
    /\ Len(yitems) = 3
    /\ \A i \in 1..3 : yitems[i].date = Some("2026-01-25")
    /\ yitems[1].video_id = "v1"
    /\ yitems[3].video_id = "v4"

(* the filter was a no-op on a list with two recent items *)
C5_WitnessKeptAll ==
    /\ ypc = "sort"
    /\ Len(yitems) = 4
    /\ Len(recent) = 2

(* the batches sent, one after the other *)
RECURSIVE IdsSent(_)
IdsSent(bs) == IF bs = <<>> THEN <<>> ELSE Head(bs).ids \o IdsSent(Tail(bs))

(* the counts videos.list gave for the n-th video found, 0 for a count it  *)
(* left out, for a video it left out and for a batch whose call failed     *)
AnswerFor(n) == batches[((n - 1) \div 50) + 1].resp
FetchedCounts(r, n) ==
    IF r.kind # "ok" \/ n % r.every # 0 THEN [views |-> 0, likes |-> 0, comments |-> 0]
    ELSE CASE r.shape = "rising" -> [views |-> 10 * n, likes |-> 2, comments |-> 0]
           [] r.shape = "same" -> [views |-> 7, likes |-> 0, comments |-> 1]
           [] OTHER -> [views |-> 0, likes |-> 0, comments |-> 0]
PlaceOf(vid) == CHOOSE n \in 1..Len(all_video_ids) : all_video_ids[n] = vid
CountsRight(its) ==
    \A i \in 1..Len(its) :
        its[i].engagement = FetchedCounts(AnswerFor(PlaceOf(its[i].video_id)),
                                          PlaceOf(its[i].video_id))
VideoIds(its) == [i \in 1..Len(its) |-> its[i].video_id]
StatsDone == ypc \in {"filter", "sort"} \/ (ypc = "returned" /\ all_video_ids # <<>>)

(* its is what is returned of the items built: each of them when fewer    *)
(* than 3 are recent, the recent ones and no other when 3 or more are      *)
ReturnedOf(built, its) ==
    /\ NumberRecent(built) < 3 =>
          Len(its) = Len(built) /\ Range(its) = Range(built)
    /\ NumberRecent(built) >= 3 =>
          /\ Len(its) = NumberRecent(built)
          /\ Range(its) = {x \in Range(built) : KnownRecent(x)}

(* C7, as stated: one item is returned per found video *)
C7_Original ==
    (ypc = "returned" /\ all_video_ids # <<>>) =>
        /\ VideoIds(yresult[1].items) \in Seq(Range(all_video_ids))
        /\ Len(yresult[1].items) = Len(all_video_ids)
        /\ CountsRight(yresult[1].items)

(* C7: the identifiers are sent in batches of at most 50; whichever        *)
(* statistics calls fail, search_youtube does not raise, every batch is    *)
(* sent, one item is built per found video, and every item of a failed     *)
(* batch has views, likes and comments 0 while the others carry the counts *)
(* fetched; what is returned is those items, all of them when fewer than   *)
(* 3 are recent and otherwise the recent ones and no other                 *)
C7_StatisticsPhase ==
    /\ ypc # "raised"
    /\ \A k \in 1..Len(batches) : Len(batches[k].ids) \in 1..50
    /\ StatsDone => IdsSent(batches) = all_video_ids
    /\ ypc = "filter" => VideoIds(yitems) = all_video_ids
    /\ StatsDone => CountsRight(yitems)
    /\ (ypc = "returned" /\ all_video_ids # <<>>) =>
          /\ yresult[1].items = yitems
          /\ Distinct(VideoIds(yitems))
          /\ ReturnedOf(BuildItems(all_video_ids, all_snippets, stats, core_topic), yitems)

(* two batches were sent, the first call failed and the second did not:    *)
(* the video of the second batch is returned with its counts, the 50 of    *)
(* the first with zeros                                                    *)
C7_Witness ==
    /\ ypc = "returned"
    /\ Len(batches) = 2
    /\ batches[1].resp.kind = "http"
    /\ batches[2].resp.kind = "ok"
    /\ Len(yresult[1].items) = 51
    /\ yresult[1].items[1].engagement = [views |-> 510, likes |-> 2, comments |-> 0]
    /\ yresult[1].items[2].engagement = [views |-> 0, likes |-> 0, comments |-> 0]

(* the search loop was left without an error *)
SearchDone ==
    \/ ypc \in {"stats", "filter", "sort"}
    \/ ypc = "returned" /\ yapi_key # "" /\ yresult[1].error = None

(* C19: the search phase asks for pages of at most 50 results and goes on  *)
(* to the next page until the ids found have reached the requested count   *)
(* or the last answer had no next-page token; it never stops with fewer    *)
(* ids than requested while a token is at hand                             *)
C19_Pagination ==
    /\ \A k \in 1..Len(requested) : requested[k] \in 1..50
    /\ Len(requested) <= DepthCount(ydepth)
    /\ SearchDone =>
          Len(all_video_ids) >= DepthCount(ydepth) \/ ~Truthy(page_token)

(* how often an item occurs in a list *)
Occurrences(its, x) == Cardinality({i \in 1..Len(its) : its[i] = x})
SameItems(a, b) ==
    /\ Len(a) = Len(b)
    /\ \A i \in 1..Len(a) : Occurrences(a, a[i]) = Occurrences(b, a[i])
(* views do not increase along the list, and of two items with equal views *)
(* the one found earlier by the search comes first                         *)
InViewOrder(its) ==
    \A a, b \in 1..Len(its) :
        a < b =>
            \/ its[a].engagement.views > its[b].engagement.views
            \/ /\ its[a].engagement.views = its[b].engagement.views
               /\ PlaceOf(its[a].video_id) < PlaceOf(its[b].video_id)

(* C20: the list search_youtube returns is the recency-filtered list in    *)
(* non-increasing order of views, items with equal views in the order the  *)
(* search phase found them; the sort changes no item and drops or adds     *)
(* none                                                                    *)
C20_ViewOrder ==
    /\ []((ypc = "returned" /\ all_video_ids # <<>>) => InViewOrder(yresult[1].items))
    /\ [][ypc = "sort" =>
            /\ SameItems(yitems, yitems')
            /\ yresult' = Some([items |-> yitems', error |-> None])]_vars

(* of four videos the second and fourth have views, 20 and 40, and the     *)
(* first and third have none: the fourth comes first, the two without      *)
(* views last in the order they were found                                 *)
C20_Witness ==
    /\ ypc = "returned"
    /\ all_video_ids = <<"v1", "v2", "v3", "v4">>
    /\ VideoIds(yresult[1].items) = <<"v4", "v2", "v1", "v3">>
    /\ yresult[1].items[3].engagement.views = 0
    /\ yresult[1].items[4].engagement.views = 0

-----------------------------------------------------------------------------
(***************************************************************************)
(* The pure functions, each applied once to the arguments of a call:       *)
(* _normalize_results and _extract_mention (dataforseo_search.py),         *)
(* _extract_core_subject (youtube_yt.py)                                   *)
(***************************************************************************)

(* The references a response of the search service is made of *)
NormalizeRefSamples ==
    RefSamples \cup
    { Ref(Some(""), Some("Te"), Missing, Missing),
      Ref(Missing, Some("Tm"), Missing, Some("s m")),
      Ref(Some("http://e.io/"), Some("  "), Missing, Missing),
      Ref(Some("https://Example.com/E-Bikes/"), Missing, Missing, Missing),
      Ref(Some("http://f.io/"), Some(" "), Some(" "), Some("abc")),
      Ref(Some("https://www.reddit.com:443/r/ebikes"), Some("Best Electric Bikes 2026"),
          Missing, Missing),
      Ref(Some(" https://reddit.com/x"), Some("Tr"), Missing, Missing),
      Ref(Some("http://www.g.io\t/x"), Some("Tg"), Missing, Missing),
      [Ref(Some("http://[x]/"), Some("Tx"), Missing, Missing) EXCEPT !.domain = Some("x.io")] }

(* The responses _normalize_results is applied to *)
PlainBodies == {r \in WebResponses : r.kind = "json"}
OverviewBody(ov, refs) ==
    Body(StatusOk, Some(<<[items |-> Some(<<AiOverviewEntry(ov, refs)>>)]>>))
NormalizeInputs ==
    PlainBodies \cup
    { OverviewBody(ov, refs) :
        ov \in OverviewSamples, refs \in SeqsUpTo(NormalizeRefSamples, MaxRefs) }

(* a call: the function and its arguments, those it does not take empty *)
NoCaptions == [installed |-> FALSE, en |-> None, any |-> None]
PureCall(f, response, ai_overview, title, domain, topic_) ==
    [fn |-> f, response |-> response, ai_overview |-> ai_overview,
     title |-> title, domain |-> domain, topic |-> topic_,
     text |-> "", max_words |-> 0, captions |-> NoCaptions]
NormalizeCalls ==
    {PureCall("_normalize_results", r, "", "", "", "") : r \in NormalizeInputs}


(* The arguments _extract_mention is applied to *)
MentionOverviews ==
    { "", "BikeRadar recommends checking motor wattage.",
      "Ta one is big.\nSee b.io too",
      " . Ride more.\nSee Bikeradar for Best Bikes Of 2026. Best bikes of 2026 are here" }
MentionTitles == {"", "Ta", "Ta  one", "Best bikes of 2026 ranked"}
MentionDomains == {"", "b.io", "bikeradar.com", "Bikeradar"}
MentionCalls ==
    { PureCall("_extract_mention", Missing, ov, t, d, "") :
        ov \in MentionOverviews, t \in MentionTitles, d \in MentionDomains }



(* The topics _extract_core_subject is applied to *)
CoreTopics ==
    { "", "?", "  ", "...", "Best", "best practices", "What are the best practices",
      "How to use AI tools?", " e bikes ", "tips for prompting", "What is the best new top",
      "what is", "How to", "What is x!?.", "Top news.", "how to use how to ride",
      "Best practices for Best Practices", "what is\tthe latest  viral AI update" }
CoreCalls == {PureCall("_extract_core_subject", Missing, "", "", "", t) : t \in CoreTopics}


(* Texts of n words "w", for the word budget of 500 *)
Doubled(s) == s \o s
ManyWords == Doubled(Doubled(Doubled(Doubled(Doubled(Doubled(Doubled(Doubled(Doubled("w ")))))))))
WordsText(n) == SubSeq(ManyWords, 1, 2 * n - 1)

(* The arguments _truncate is applied to *)
TruncateTexts ==
    { "", "a", " a  b ", "a b c", "a\tb\nc d ", "a b c...", "a b c d e",
      WordsText(TRANSCRIPT_MAX_WORDS), WordsText(TRANSCRIPT_MAX_WORDS + 1) }
TruncateBudgets == {1, 3, TRANSCRIPT_MAX_WORDS}
TruncateCalls ==
    { [PureCall("_truncate", Missing, "", "", "", "") EXCEPT !.text = t, !.max_words = m] :
        t \in TruncateTexts, m \in TruncateBudgets }

(* fetch_transcript(video_id) of youtube_yt.py.  What the caption library  *)
(* gives: it is not installed, or get_transcript answers the call for      *)
(* English and, when that raised, the call for any language, each with a  *)
(* list of entries (their texts) or by raising (None).                     *)
CaptionLists ==
    { None, Some(<<>>), Some(<<" ">>), Some(<<" a  b ", "c\n d">>),
      Some(<<WordsText(250), WordsText(250)>>),
      Some(<<WordsText(250), "x\ty", WordsText(249)>>) }
CaptionAnswers ==
    { NoCaptions }
    \cup { [installed |-> TRUE, en |-> a, any |-> b] : a, b \in CaptionLists }
CaptionCalls ==
    { [PureCall("fetch_transcript", Missing, "", "", "", "") EXCEPT !.captions = c] :
        c \in CaptionAnswers }
(* transcript_list, or None when the function returns None before it *)
TranscriptList(c) ==
    IF ~c.installed THEN None
    ELSE IF c.en # None THEN c.en
    ELSE c.any
(* re.sub(r'\s+', ' ', text), computed by halves: a run of whitespace     *)
(* across the middle gives one space                                       *)
MergeRuns(a, b) ==
    IF a # "" /\ b # "" /\ Ch(a, Len(a)) = " " /\ Ch(b, 1) = " "
      THEN a \o From(b, 2)
      ELSE a \o b
RECURSIVE CollapseIn(_, _, _)
CollapseIn(s, lo, hi) ==
    IF lo > hi THEN ""
    ELSE IF lo = hi THEN (IF IsSpace(Ch(s, lo)) THEN " " ELSE Ch(s, lo))
    ELSE MergeRuns(CollapseIn(s, lo, (lo + hi) \div 2),
                   CollapseIn(s, (lo + hi) \div 2 + 1, hi))
CollapseWs(s) == CollapseIn(s, 1, Len(s))
(* words = text.split(); if len(words) > TRANSCRIPT_MAX_WORDS: ... *)
CaptionCut(text) == TruncateWords(text, Words(text), TRANSCRIPT_MAX_WORDS)
(* return text if text else None *)
CaptionOrNone(text) == IF text # "" THEN Some(text) ELSE None
CaptionOfList(transcript_list) ==
    IF transcript_list = None THEN None
    ELSE CaptionOrNone(CaptionCut(Strip(CollapseWs(Join(transcript_list[1], " ")))))
fetch_transcript(c) == CaptionOfList(TranscriptList(c))

PureCalls ==
    NormalizeCalls \cup MentionCalls \cup CoreCalls \cup TruncateCalls \cup CaptionCalls

InitPure ==
    /\ call \in PureCalls
    /\ ret = None
    /\ IdleFetch /\ IdlePoll /\ IdleWeb /\ IdleYT /\ IdleTranscript /\ IdleEnrich

(* items, ai_overview = _normalize_results(response, from_date, to_date) *)
ApplyNormalize ==
    /\ call.fn = "_normalize_results"
    /\ ret = None
    /\ ret' = Some(normalize_results(call.response))
    /\ UNCHANGED <<call, notPure>>

(* _extract_mention(ai_overview, title, domain) *)
ApplyMention ==
    /\ call.fn = "_extract_mention"
    /\ ret = None
    /\ ret' = Some(extract_mention(call.ai_overview, call.title, call.domain))
    /\ UNCHANGED <<call, notPure>>

(* core_topic = _extract_core_subject(topic) *)
ApplyCore ==
    /\ call.fn = "_extract_core_subject"
    /\ ret = None
    /\ ret' = Some(extract_core_subject(call.topic))
    /\ UNCHANGED <<call, notPure>>

(* _truncate(text, max_words) *)
ApplyTruncate ==
    /\ call.fn = "_truncate"
    /\ ret = None
    /\ ret' = Some(TruncateWords(call.text, Words(call.text), call.max_words))
    /\ UNCHANGED <<call, notPure>>

(* fetch_transcript(video_id) of youtube_yt.py *)
ApplyCaption ==
    /\ call.fn = "fetch_transcript"
    /\ ret = None
    /\ ret' = Some(fetch_transcript(call.captions))
    /\ UNCHANGED <<call, notPure>>

NextPure ==
    \/ ApplyNormalize
    \/ ApplyMention
    \/ ApplyCore
    \/ ApplyTruncate
    \/ ApplyCaption

SpecPure == InitPure /\ [][NextPure]_vars

-----------------------------------------------------------------------------
(***************************************************************************)
(* Claims about the normalizer                                             *)
(***************************************************************************)

(* the references of the response of the call, when it carries an overview *)
SentRefs(response) ==
    IF response \in PlainBodies THEN <<>>
    ELSE response.tasks[1][1].result[1][1].items[1][1].references[1]
Blank(f) == f \in {Missing, None} \/ Strip(f[1]) = ""
NoUrl(ref) == ref.url \in {Missing, None, Some("")}
NoText(ref) == Blank(ref.title) /\ Blank(ref.text) /\ Blank(ref.snippet)
Normalized == call.fn = "_normalize_results" /\ ret # None /\ ret[1].ok
ItemOfRef(its, i) == \E k \in 1..Len(its) : its[k].id = ItemId(i)

(* C11: every item _normalize_results returns has a non-empty url and a    *)
(* non-empty title or a non-empty snippet; a reference with an empty url,  *)
(* or with title and snippet both empty after trimming, gives no item      *)
C11_WebItemInvariant ==
    Normalized =>
        /\ \A k \in 1..Len(ret[1].items) :
              /\ ret[1].items[k].url # ""
              /\ ret[1].items[k].title # "" \/ ret[1].items[k].snippet # ""
        /\ \A i \in 1..Len(SentRefs(call.response)) :
              NoUrl(SentRefs(call.response)[i]) \/ NoText(SentRefs(call.response)[i])
                  => ~ItemOfRef(ret[1].items, i)

(* the reference of Example.com without title and snippet is dropped and   *)
(* the one after it is kept                                                *)
C11_Witness ==
    /\ Normalized
    /\ Len(SentRefs(call.response)) = 2
    /\ SentRefs(call.response)[1] =
          Ref(Some("https://Example.com/E-Bikes/"), Missing, Missing, Missing)
    /\ Len(ret[1].items) = 1
    /\ ret[1].items[1].id = "D2"
    /\ ret[1].items[1].snippet = "s b"

(* the host of a url: its netloc in lower case without userinfo and port *)
SocialHosts ==
    {"reddit.com", "twitter.com", "x.com", "www.reddit.com", "www.twitter.com", "www.x.com"}
WithoutUserinfo(n) == IF Index(n, "@") > 0 THEN From(n, Index(n, "@") + 1) ELSE n
WithoutPort(h) == IF Index(h, ":") > 0 THEN Take(h, Index(h, ":") - 1) ELSE h
HostOf(url) == WithoutPort(WithoutUserinfo(Lower(Netloc(url))))

(* C12: no item _normalize_results returns has a url whose host is         *)
(* reddit.com, twitter.com or x.com, bare or with www., in any letter case *)
C12_NoSocialHost ==
    Normalized =>
        \A k \in 1..Len(ret[1].items) : HostOf(ret[1].items[k].url) \notin SocialHosts

-----------------------------------------------------------------------------
(***************************************************************************)
(* Claims about _extract_mention                                           *)
(***************************************************************************)

Mentioned == call.fn = "_extract_mention" /\ ret # None
(* sentence k of the overview is not blank and contains the term *)
MatchAt(S, term, k) == Strip(S[k]) # "" /\ Contains(Lower(S[k]), Lower(term))
Matches(S, term) == \E k \in 1..Len(S) : MatchAt(S, term, k)
FirstMatch(S, term) ==
    S[CHOOSE k \in 1..Len(S) :
        MatchAt(S, term, k) /\ \A j \in 1..(k - 1) : ~MatchAt(S, term, j)]
(* the leading words of a title of two words or more *)
HasPhrase(title) == Len(SplitWs(title)) >= 2
Phrase(title) == Join(SubSeq(SplitWs(title), 1, Min(4, Len(SplitWs(title)))), " ")
ExampleSentence == "BikeRadar recommends checking motor wattage"

(* the rule for the sentences S of a non-empty overview *)
MentionRule(S, title, domain, result) ==
    IF Matches(S, domain) THEN result = Take(Strip(FirstMatch(S, domain)), 150)
    ELSE IF HasPhrase(title) /\ Matches(S, Phrase(title))
      THEN result = Take(Strip(FirstMatch(S, Phrase(title))), 150)
    ELSE result = ""

(* C13: the result of _extract_mention is the first sentence of the        *)
(* overview (split on ".", newlines as spaces) that contains the domain    *)
(* in any letter case, else the first that contains the leading words of   *)
(* a title of two words or more, else the empty string; for the domain     *)
(* bikeradar.com and the overview "BikeRadar recommends checking motor     *)
(* wattage." it is that sentence                                           *)
C13_Mention ==
    Mentioned =>
        /\ MentionRule(SplitCh(ReplaceCh(call.ai_overview, "\n", " "), "."),
                       call.title, call.domain, ret[1])
        /\ (call.domain = "bikeradar.com" /\ call.ai_overview = ExampleSentence \o ".")
              => ret[1] \in {ExampleSentence, ExampleSentence \o "."}

-----------------------------------------------------------------------------
(***************************************************************************)
(* Claims about _extract_core_subject                                      *)
(***************************************************************************)

CoreFound == call.fn = "_extract_core_subject" /\ ret # None
(* what is left of a topic without prefixes, stoplist words and trailing   *)
(* punctuation                                                             *)
LeftOf(topic_) ==
    RStripPunct(Join(Filter(SplitWs(StripPrefixes(Strip(Lower(topic_)), 1))), " "))

(* C14: for a topic that is not empty the query of _extract_core_subject   *)
(* is not empty, and when nothing is left after stripping prefixes,        *)
(* stoplist words and trailing punctuation it is the trimmed topic         *)
C14_CoreSubject ==
    CoreFound =>
        /\ call.topic # "" => ret[1] # ""
        /\ (call.topic # "" /\ LeftOf(call.topic) = "") => ret[1] = Strip(call.topic)

(***************************************************************************)
(* Claims about the word budget of _truncate and of the caption fetch      *)
(***************************************************************************)

(* out is text cut to a budget of n words: at most n words, the first n    *)
(* words of text joined by one space and the marker when text has more     *)
(* than n words, text itself otherwise                                     *)
FirstWords(words, n) == JoinRange(words, 1, n, " ")
CutOf(text, words, n) ==
    IF Len(words) > n THEN FirstWords(words, n) \o "..." ELSE text
Marked(text, out) == out # text /\ out = Take(out, Len(out) - 3) \o "..."
Budgeted(text, out, n) ==
    /\ Len(Words(out)) <= n
    /\ out = CutOf(text, Words(text), n)
    /\ Marked(text, out) <=> Len(Words(text)) > n
    /\ TruncateWords(out, Words(out), n) = out
(* the text the caption fetch cuts: the segments joined by a space, runs   *)
(* of whitespace collapsed, trimmed                                        *)
CaptionText(transcript_list) ==
    Strip(CollapseWs(Join(transcript_list[1], " ")))
CaptionBudgeted(text, out) ==
    IF text = "" THEN out = None
    ELSE out # None /\ Budgeted(text, out[1], TRANSCRIPT_MAX_WORDS)

(* C22: the result of _truncate and of the truncation step of the caption  *)
(* fetch has at most as many words as the budget (500 by default), has the *)
(* marker "..." appended exactly when the text has more words than the     *)
(* budget and is then the first words up to the budget followed by the     *)
(* marker, is the text itself when the text is within the budget, and is   *)
(* left as it is when truncated again                                      *)
C22_WordBudget ==
    /\ (call.fn = "_truncate" /\ ret # None) =>
           Budgeted(call.text, ret[1], call.max_words)
    /\ (call.fn = "fetch_transcript" /\ ret # None
           /\ TranscriptList(call.captions) # None) =>
           CaptionBudgeted(CaptionText(TranscriptList(call.captions)), ret[1])
C22_Witness ==
    /\ call.fn = "_truncate"
    /\ call.max_words = TRANSCRIPT_MAX_WORDS
    /\ Len(Words(call.text)) = TRANSCRIPT_MAX_WORDS + 1
    /\ ret = Some(WordsText(TRANSCRIPT_MAX_WORDS) \o "...")

-----------------------------------------------------------------------------
(***************************************************************************)
(* Search with transcripts (youtube_yt.py search_and_transcribe)           *)
(***************************************************************************)

TRANSCRIPT_LIMITS == [quick |-> 3, default |-> 5, deep |-> 8]
(* TRANSCRIPT_LIMITS.get(depth, TRANSCRIPT_LIMITS["default"]) *)
TranscriptLimit(d) ==
    IF d \in DOMAIN TRANSCRIPT_LIMITS THEN TRANSCRIPT_LIMITS[d] ELSE TRANSCRIPT_LIMITS["default"]

(* [item["video_id"] for item in items[:transcript_limit]] *)
TopIdsOfAll(its, limit) == [i \in 1..Len(its) |-> its[i].video_id]
TopIds(its, limit) == [i \in 1..Min(limit, Len(its)) |-> its[i].video_id]

(* transcript = transcripts.get(vid); transcript or "" *)
TranscriptFor(tr, vid) == IF vid \in DOMAIN tr THEN tr[vid] ELSE None
OrEmpty(transcript) == IF Truthy(transcript) THEN transcript[1] ELSE ""
(* item["transcript_snippet"] = ... : the key is added to the item *)
WithSnippet(item, text) ==
    [f \in (DOMAIN item) \cup {"transcript_snippet"} |->
        IF f = "transcript_snippet" THEN text ELSE item[f]]
Attach(its, tr) ==
    [i \in 1..Len(its) |-> WithSnippet(its[i], OrEmpty(TranscriptFor(tr, its[i].video_id)))]

(* Inputs tried: what search_youtube returns. An error without items, no   *)
(* items, or the items of n videos sorted by views, the views rising with  *)
(* n or the same for all of them                                           *)
EnrichDepths == {"quick", "default", "deep", "thorough"}
FoundVideo(n, shape) ==
    VideoItem(VideoId(n), SearchItem("late", n).snippet,
              StatsOf([statistics |-> Statistics(shape, n)]), "e bikes")
FoundItems(n, shape) == SortByViews([i \in 1..n |-> FoundVideo(i, shape)])
SearchResults ==
    { [items |-> <<>>, error |-> Some("YOUTUBE_API_KEY not set")],
      [items |-> <<>>, error |-> Some("YouTube API error: timed out")] }
    \cup { [items |-> FoundItems(n, shape), error |-> None] :
              n \in 0..MaxFound, shape \in {"rising", "same"} }
(* what fetch_transcripts_parallel returns for ids: an entry for each id,  *)
(* the text of the videos in got, None for the ones whose fetch failed     *)
CaptionsOf(vid) == "captions of " \o vid
FetchedTranscripts(ids, got) ==
    [v \in Range(ids) |-> IF v \in got THEN Some(CaptionsOf(v)) ELSE None]

InitEnrich ==
    /\ edepth \in EnrichDepths
    /\ epc = "start"
    /\ search_result = None /\ eitems = <<>> /\ top_ids = <<>>
    /\ transcripts = None /\ eresult = None
    /\ IdleFetch /\ IdlePoll /\ IdleWeb /\ IdleYT /\ IdleTranscript /\ IdlePure

(* search_result = search_youtube(...); items; if not items: return *)
ESearch(sr) ==
    /\ epc = "start"
    /\ search_result' = Some(sr)
    /\ eitems' = sr.items
    /\ IF sr.items = <<>>
         THEN eresult' = Some(sr) /\ epc' = "returned"
         ELSE UNCHANGED eresult /\ epc' = "select"
    /\ UNCHANGED <<edepth, top_ids, transcripts, notEnrich>>

(* transcript_limit, top_ids *)
ESelect ==
    /\ epc = "select"
    /\ top_ids' = TopIds(eitems, TranscriptLimit(edepth))
    /\ epc' = "fetch"
    /\ UNCHANGED <<edepth, search_result, eitems, transcripts, eresult, notEnrich>>

(* transcripts = fetch_transcripts_parallel(top_ids) *)
EFetch(got) ==
    /\ epc = "fetch"
    /\ transcripts' = Some(FetchedTranscripts(top_ids, got))
    /\ epc' = "attach"
    /\ UNCHANGED <<edepth, search_result, eitems, top_ids, eresult, notEnrich>>

(* for item in items: item["transcript_snippet"] = ...; return {"items": items} *)
(* items is the list search_result["items"] itself: the key written into   *)
(* its dicts shows in search_result as well                                *)
Attached(its) ==
    /\ eitems' = its
    /\ search_result' = Some([search_result[1] EXCEPT !.items = its])
    /\ eresult' = Some([items |-> its, error |-> None])
EAttach ==
    /\ epc = "attach"
    /\ Attached(Attach(eitems, transcripts[1]))
    /\ epc' = "returned"
    /\ UNCHANGED <<edepth, top_ids, transcripts, notEnrich>>

NextEnrich ==
    \/ \E sr \in SearchResults : ESearch(sr)
    \/ ESelect
    \/ \E got \in SUBSET Range(top_ids) : EFetch(got)
    \/ EAttach

SpecEnrich == InitEnrich /\ [][NextEnrich]_vars

(* the items search_youtube returned, as they are until the attach loop    *)
(* writes into them, and what search_and_transcribe returns                *)
Found == eitems
Returned == eresult[1].items
(* the step of the attach loop and the return that follows it *)
Enriching == epc = "attach" /\ epc' = "returned"
(* items is the list of search_result *)
SameList == search_result[1].items = eitems
(* the limit of each depth, the default for a depth that has none *)
LimitOf(d) == CASE d = "quick" -> 3 [] d = "deep" -> 8 [] OTHER -> 5
Selected(i) == i <= LimitOf(edepth)
ViewsOf(item) == item.engagement.views
(* x is a string, not the null value *)
IsText(x) == SubSeq(ToString(x), 1, 1) = "\""

(* C24: when the search gave items, the ids handed to the caption fetch    *)
(* are those of the first 3, 5 or 8 items (by depth) of the list, which    *)
(* have the most views, and nothing else is fetched; every returned item   *)
(* has a transcript_snippet that is the fetched text when the item was     *)
(* selected and its fetch gave one, the empty string otherwise, never      *)
(* null; the returned list has the items of the search in their order,     *)
(* every other field as it was before the enrichment; the list is the one *)
(* of the search result throughout                                         *)
C24_Enrichment ==
    [][/\ epc' \in {"select", "fetch", "attach"} => SameList'
       /\ Enriching =>
            /\ Found # <<>>
            /\ SameList /\ SameList'
            /\ Len(top_ids) = Min(LimitOf(edepth), Len(Found))
            /\ \A i \in 1..Len(top_ids) : top_ids[i] = Found[i].video_id
            /\ \A i \in 1..Len(top_ids) : \A j \in (Len(top_ids) + 1)..Len(Found) :
                   ViewsOf(Found[i]) >= ViewsOf(Found[j])
            /\ DOMAIN transcripts[1] = Range(top_ids)
            /\ Len(Returned') = Len(Found)
            /\ \A i \in 1..Len(Found) :
                   /\ "transcript_snippet" \notin DOMAIN Found[i]
                   /\ DOMAIN Returned'[i] = (DOMAIN Found[i]) \cup {"transcript_snippet"}
                   /\ \A f \in DOMAIN Found[i] : Returned'[i][f] = Found[i][f]
                   /\ IsText(Returned'[i].transcript_snippet)
                   /\ Returned'[i].transcript_snippet =
                          IF Selected(i) /\ transcripts[1][Found[i].video_id] # None
                            THEN transcripts[1][Found[i].video_id][1]
                            ELSE ""]_vars

(* depth quick and four videos found: the three with the most views were   *)
(* selected, the fetch of the second failed, and the fourth was not        *)
(* selected                                                                *)
C24_Witness ==
    /\ epc = "returned"
    /\ edepth = "quick"
    /\ Len(Returned) = 4
    /\ search_result[1].items = Returned
    /\ top_ids = <<"v4", "v3", "v2">>
    /\ Returned[1].transcript_snippet = "captions of v4"
    /\ Returned[2].transcript_snippet = ""
    /\ Returned[3].transcript_snippet = "captions of v2"
    /\ Returned[4].transcript_snippet = ""
    /\ Returned[4].video_id = "v1"

-----------------------------------------------------------------------------
(***************************************************************************)
(* The clients that take an API key, one of them called: search_youtube,   *)
(* fetch_transcript with its poller, fetch_transcripts_batch               *)
(***************************************************************************)

InitKeyed ==
    \/ InitYT
    \/ InitTranscript
    \/ InitFetch /\ fn = "batch"

NextKeyed ==
    \/ NextYT
    \/ NextTranscript
    \/ NextFetch

SpecKeyed == InitKeyed /\ [][NextKeyed]_vars

(* search_youtube was called without a key *)
YouTubeNoKey == ypc # "idle" /\ yapi_key = ""
(* fetch_transcript, fetch_transcripts_batch were called without a key *)
TranscriptNoKey == tpc # "idle" /\ tapi_key = ""
BatchNoKey == cpc # "idle" /\ fn = "batch" /\ api_key = ""

(* C15: with an empty API key search_youtube returns an empty item list    *)
(* and a non-empty error string, and the transcript fetch returns no       *)
(* transcript; neither sends a request and neither raises                  *)
C15_MissingCredentials ==
    /\ YouTubeNoKey =>
          /\ requested = <<>> /\ batches = <<>>
          /\ ypc \in {"start", "returned"}
          /\ ypc = "returned" =>
                /\ yresult # None
                /\ yresult[1].items = <<>>
                /\ yresult[1].error # None /\ yresult[1].error[1] # ""
    /\ TranscriptNoKey =>
          /\ submitted = 0 /\ polled = 0 /\ queries = 0
          /\ tpc \in {"start", "returned"}
          /\ tresult = None
    /\ BatchNoKey =>
          /\ futures = <<>>
          /\ results = <<>>

(* search_youtube has returned the error without any request *)
C15_Witness ==
    /\ YouTubeNoKey
    /\ ypc = "returned"
    /\ yresult = Some([items |-> <<>>, error |-> Some("YOUTUBE_API_KEY not set")])
    /\ requested = <<>>

====
